---- MODULE Spec2Model ----
(***************************************************************************)
(* Client-side state layer of financas-pessoais: the account, transaction  *)
(* and budget stores (React reducers plus their async handlers) and the    *)
(* budget-status derivation built on them.                                 *)
(*                                                                         *)
(* Money amounts are integers (minor units), so the JavaScript double      *)
(* arithmetic of the source is exact on them; a percentage is the exact    *)
(* rational spent*100/amount, kept as a numerator/denominator pair.        *)
(* A JavaScript Date is an instant <<day number, millisecond of day>> with *)
(* millisecond resolution, as in the source.                               *)
(***************************************************************************)
EXTENDS Integers, Sequences, FiniteSets, Bags, TLC

VARIABLES
    user,               \* useAuth().user?.id, NoUser when user is null
    accountsState,      \* state of accountsReducer
    transactionsState,  \* state of transactionsReducer
    budgetsState,       \* state of budgetsReducer
    inflight,           \* bag of API calls awaiting their response
    calls,              \* number of handler invocations so far
    ev,                 \* history: what the last handler step dispatched/settled
    authState,          \* state of authReducer
    localStorage,       \* the items financas_user and financas_token
    authMounted         \* AuthProvider's mount effect (loadStoredUser) has run

vars == <<user, accountsState, transactionsState, budgetsState, inflight, calls, ev,
          authState, localStorage, authMounted>>

\* the auth provider's part of the state
authVars == <<authState, localStorage, authMounted>>

-----------------------------------------------------------------------------
(* Bounds of the model *)

MaxCalls == 2          \* handler invocations (user operations, session changes) in a run
DeriveMaxTx == 2       \* longest transaction list drawn by InitDerive
DeriveMaxBudgets == 2  \* longest budget list drawn by InitDerive

-----------------------------------------------------------------------------
(* Values *)

NoUser == 0
Users == {1, 2}
Null == "null"
Messages == {"E1", "E2"}

\* error.message of a rejected call: the API words the failure of a list
\* request and the failure of a write differently
FailureMessage(r) == IF r.op = "load" THEN "E1" ELSE "E2"

BUDGET_STATUS == [ON_TRACK |-> "on_track", WARNING |-> "warning", EXCEEDED |-> "exceeded"]
TRANSACTION_TYPES == [INCOME |-> "income", EXPENSE |-> "expense"]
TRANSACTION_STATUS == [COMPLETED |-> "completed", PENDING |-> "pending", CANCELLED |-> "cancelled"]
ACCOUNT_TYPES == [CHECKING |-> "checking", SAVINGS |-> "savings", CREDIT |-> "credit",
                  CASH |-> "cash", INVESTMENT |-> "investment"]


-----------------------------------------------------------------------------
(* JavaScript Date, local time: new Date(y, monthIndex, day, h, mi, s, ms).  *)
(* Month index and day overflow are normalised as MakeDay does, so that day *)
(* 0 is the last day of the previous month and month index 12 is January of *)
(* the next year.                                                           *)

DaysFromCivil(y, m, d) ==
    LET yy  == IF m <= 2 THEN y - 1 ELSE y
        era == yy \div 400
        yoe == yy - era * 400
        mp  == (m + 9) % 12
        doy == (153 * mp + 2) \div 5 + d - 1
        doe == yoe * 365 + yoe \div 4 - yoe \div 100 + doy
    IN  era * 146097 + doe - 719468

MakeDay(year, monthIndex, day) ==
    LET ym == year + (monthIndex \div 12)
        mn == monthIndex % 12
    IN  DaysFromCivil(ym, mn + 1, 1) + day - 1

MakeTime(h, mi, s, ms) == h * 3600000 + mi * 60000 + s * 1000 + ms

NewDate(year, monthIndex, day, h, mi, s, ms) ==
    <<MakeDay(year, monthIndex, day), MakeTime(h, mi, s, ms)>>

\* new Date(transaction.date): the instant the stored date denotes.  The
\* stored date is kept as the local civil fields of that instant.
ParseDate(date) ==
    NewDate(date.y, date.mo - 1, date.d, date.h, date.mi, date.s, date.ms)

\* a >= b and a <= b on Date objects (comparison of the time values)
DateGE(a, b) == a[1] > b[1] \/ (a[1] = b[1] /\ a[2] >= b[2])
DateLE(a, b) == a[1] < b[1] \/ (a[1] = b[1] /\ a[2] <= b[2])

-----------------------------------------------------------------------------
(* Reducers.  An action is a record [type, payload]. *)

Act(type, payload) == [type |-> type, payload |-> payload]

\* s with every element whose id is r.id replaced by r (Array.map)
ReplaceById(s, r) == [i \in 1..Len(s) |-> IF s[i].id = r.id THEN r ELSE s[i]]

\* s without the elements whose id is id (Array.filter)
RemoveById(s, id) == SelectSeq(s, LAMBDA x : x.id # id)

accountsInitialState == [accounts |-> <<>>, isLoading |-> FALSE, error |-> Null]

\* accountsReducer whose SET_LOADING starts again from the initial state
accountsReducerLoadingResets(state, action) ==
    CASE action.type = "LOAD_ACCOUNTS" ->
           [state EXCEPT !.accounts = action.payload, !.isLoading = FALSE, !.error = Null]
      [] action.type = "ADD_ACCOUNT" ->
           [state EXCEPT !.accounts = Append(state.accounts, action.payload),
                         !.isLoading = FALSE, !.error = Null]
      [] action.type = "UPDATE_ACCOUNT" ->
           [state EXCEPT !.accounts = ReplaceById(state.accounts, action.payload),
                         !.isLoading = FALSE, !.error = Null]
      [] action.type = "DELETE_ACCOUNT" ->
           [state EXCEPT !.accounts = RemoveById(state.accounts, action.payload),
                         !.isLoading = FALSE, !.error = Null]
      [] action.type = "SET_LOADING" ->
           [accountsInitialState EXCEPT !.isLoading = action.payload]
      [] action.type = "SET_ERROR" ->
           [state EXCEPT !.error = action.payload, !.isLoading = FALSE]
      [] action.type = "CLEAR_ERROR" -> [state EXCEPT !.error = Null]
      [] OTHER -> state

accountsReducer(state, action) ==
    CASE action.type = "LOAD_ACCOUNTS" ->
           [state EXCEPT !.accounts = action.payload, !.isLoading = FALSE, !.error = Null]
      [] action.type = "ADD_ACCOUNT" ->
           [state EXCEPT !.accounts = Append(state.accounts, action.payload),
                         !.isLoading = FALSE, !.error = Null]
      [] action.type = "UPDATE_ACCOUNT" ->
           [state EXCEPT !.accounts = ReplaceById(state.accounts, action.payload),
                         !.isLoading = FALSE, !.error = Null]
      [] action.type = "DELETE_ACCOUNT" ->
           [state EXCEPT !.accounts = RemoveById(state.accounts, action.payload),
                         !.isLoading = FALSE, !.error = Null]
      [] action.type = "SET_LOADING" -> [state EXCEPT !.isLoading = action.payload]
      [] action.type = "SET_ERROR" ->
           [state EXCEPT !.error = action.payload, !.isLoading = FALSE]
      [] action.type = "CLEAR_ERROR" -> [state EXCEPT !.error = Null]
      [] OTHER -> state

transactionsInitialState == [transactions |-> <<>>, isLoading |-> FALSE, error |-> Null]

\* transactionsReducer whose ADD_TRANSACTION replaces the collection with the
\* new transaction
transactionsReducerAddReplaces(state, action) ==
    CASE action.type = "LOAD_TRANSACTIONS" ->
           [state EXCEPT !.transactions = action.payload, !.isLoading = FALSE, !.error = Null]
      [] action.type = "ADD_TRANSACTION" ->
           [state EXCEPT !.transactions = <<action.payload>>,
                         !.isLoading = FALSE, !.error = Null]
      [] action.type = "UPDATE_TRANSACTION" ->
           [state EXCEPT !.transactions = ReplaceById(state.transactions, action.payload),
                         !.isLoading = FALSE, !.error = Null]
      [] action.type = "DELETE_TRANSACTION" ->
           [state EXCEPT !.transactions = RemoveById(state.transactions, action.payload),
                         !.isLoading = FALSE, !.error = Null]
      [] action.type = "SET_LOADING" -> [state EXCEPT !.isLoading = action.payload]
      [] action.type = "SET_ERROR" ->
           [state EXCEPT !.error = action.payload, !.isLoading = FALSE]
      [] action.type = "CLEAR_ERROR" -> [state EXCEPT !.error = Null]
      [] OTHER -> state

\* transactionsReducer whose SET_LOADING also resets the error
transactionsReducerLoadingClearsError(state, action) ==
    CASE action.type = "LOAD_TRANSACTIONS" ->
           [state EXCEPT !.transactions = action.payload, !.isLoading = FALSE, !.error = Null]
      [] action.type = "ADD_TRANSACTION" ->
           [state EXCEPT !.transactions = <<action.payload>> \o state.transactions,
                         !.isLoading = FALSE, !.error = Null]
      [] action.type = "UPDATE_TRANSACTION" ->
           [state EXCEPT !.transactions = ReplaceById(state.transactions, action.payload),
                         !.isLoading = FALSE, !.error = Null]
      [] action.type = "DELETE_TRANSACTION" ->
           [state EXCEPT !.transactions = RemoveById(state.transactions, action.payload),
                         !.isLoading = FALSE, !.error = Null]
      [] action.type = "SET_LOADING" ->
           [state EXCEPT !.isLoading = action.payload, !.error = Null]
      [] action.type = "SET_ERROR" ->
           [state EXCEPT !.error = action.payload, !.isLoading = FALSE]
      [] action.type = "CLEAR_ERROR" -> [state EXCEPT !.error = Null]
      [] OTHER -> state

transactionsReducer(state, action) ==
    CASE action.type = "LOAD_TRANSACTIONS" ->
           [state EXCEPT !.transactions = action.payload, !.isLoading = FALSE, !.error = Null]
      [] action.type = "ADD_TRANSACTION" ->
           [state EXCEPT !.transactions = <<action.payload>> \o state.transactions,
                         !.isLoading = FALSE, !.error = Null]
      [] action.type = "UPDATE_TRANSACTION" ->
           [state EXCEPT !.transactions = ReplaceById(state.transactions, action.payload),
                         !.isLoading = FALSE, !.error = Null]
      [] action.type = "DELETE_TRANSACTION" ->
           [state EXCEPT !.transactions = RemoveById(state.transactions, action.payload),
                         !.isLoading = FALSE, !.error = Null]
      [] action.type = "SET_LOADING" -> [state EXCEPT !.isLoading = action.payload]
      [] action.type = "SET_ERROR" ->
           [state EXCEPT !.error = action.payload, !.isLoading = FALSE]
      [] action.type = "CLEAR_ERROR" -> [state EXCEPT !.error = Null]
      [] OTHER -> state

budgetsInitialState == [budgets |-> <<>>, isLoading |-> FALSE, error |-> Null]

\* budgetsReducer whose UPDATE_BUDGET appends the record when no id matches
budgetsReducerUpsert(state, action) ==
    CASE action.type = "LOAD_BUDGETS" ->
           [state EXCEPT !.budgets = action.payload, !.isLoading = FALSE, !.error = Null]
      [] action.type = "ADD_BUDGET" ->
           [state EXCEPT !.budgets = Append(state.budgets, action.payload),
                         !.isLoading = FALSE, !.error = Null]
      [] action.type = "UPDATE_BUDGET" ->
           [state EXCEPT !.budgets =
                             IF \E i \in 1..Len(state.budgets) : state.budgets[i].id = action.payload.id
                             THEN ReplaceById(state.budgets, action.payload)
                             ELSE Append(state.budgets, action.payload),
                         !.isLoading = FALSE, !.error = Null]
      [] action.type = "DELETE_BUDGET" ->
           [state EXCEPT !.budgets = RemoveById(state.budgets, action.payload),
                         !.isLoading = FALSE, !.error = Null]
      [] action.type = "SET_LOADING" -> [state EXCEPT !.isLoading = action.payload]
      [] action.type = "SET_ERROR" ->
           [state EXCEPT !.error = action.payload, !.isLoading = FALSE]
      [] action.type = "CLEAR_ERROR" -> [state EXCEPT !.error = Null]
      [] OTHER -> state

\* budgetsReducer whose SET_ERROR also empties the collection
budgetsReducerErrorClears(state, action) ==
    CASE action.type = "LOAD_BUDGETS" ->
           [state EXCEPT !.budgets = action.payload, !.isLoading = FALSE, !.error = Null]
      [] action.type = "ADD_BUDGET" ->
           [state EXCEPT !.budgets = Append(state.budgets, action.payload),
                         !.isLoading = FALSE, !.error = Null]
      [] action.type = "UPDATE_BUDGET" ->
           [state EXCEPT !.budgets = ReplaceById(state.budgets, action.payload),
                         !.isLoading = FALSE, !.error = Null]
      [] action.type = "DELETE_BUDGET" ->
           [state EXCEPT !.budgets = RemoveById(state.budgets, action.payload),
                         !.isLoading = FALSE, !.error = Null]
      [] action.type = "SET_LOADING" -> [state EXCEPT !.isLoading = action.payload]
      [] action.type = "SET_ERROR" ->
           [state EXCEPT !.budgets = <<>>, !.error = action.payload, !.isLoading = FALSE]
      [] action.type = "CLEAR_ERROR" -> [state EXCEPT !.error = Null]
      [] OTHER -> state

budgetsReducer(state, action) ==
    CASE action.type = "LOAD_BUDGETS" ->
           [state EXCEPT !.budgets = action.payload, !.isLoading = FALSE, !.error = Null]
      [] action.type = "ADD_BUDGET" ->
           [state EXCEPT !.budgets = Append(state.budgets, action.payload),
                         !.isLoading = FALSE, !.error = Null]
      [] action.type = "UPDATE_BUDGET" ->
           [state EXCEPT !.budgets = ReplaceById(state.budgets, action.payload),
                         !.isLoading = FALSE, !.error = Null]
      [] action.type = "DELETE_BUDGET" ->
           [state EXCEPT !.budgets = RemoveById(state.budgets, action.payload),
                         !.isLoading = FALSE, !.error = Null]
      [] action.type = "SET_LOADING" -> [state EXCEPT !.isLoading = action.payload]
      [] action.type = "SET_ERROR" ->
           [state EXCEPT !.error = action.payload, !.isLoading = FALSE]
      [] action.type = "CLEAR_ERROR" -> [state EXCEPT !.error = Null]
      [] OTHER -> state

-----------------------------------------------------------------------------
(* Derivations of the transaction store and the budget store *)

\* Array.reduce((total, t) => total + t.amount, 0)
RECURSIVE SumAmount(_)
SumAmount(s) == IF s = <<>> THEN 0 ELSE s[1].amount + SumAmount(Tail(s))

getTransactionsByCategory(categoryId) ==
    SelectSeq(transactionsState.transactions, LAMBDA t : t.category.id = categoryId)

\* getCategorySpent counting completed expenses only
getCategorySpentCompletedOnly(categoryId, year, month) ==
    LET startDate == NewDate(year, month - 1, 1, 0, 0, 0, 0)
        endDate == NewDate(year, month, 0, 23, 59, 59, 0)
        transactions == getTransactionsByCategory(categoryId)
    IN  SumAmount(SelectSeq(transactions,
            LAMBDA t : /\ DateGE(ParseDate(t.date), startDate)
                       /\ DateLE(ParseDate(t.date), endDate)
                       /\ t.type = TRANSACTION_TYPES.EXPENSE
                       /\ t.status = TRANSACTION_STATUS.COMPLETED))

\* getCategorySpent without the lower end of the month window
getCategorySpentNoStart(categoryId, year, month) ==
    LET endDate == NewDate(year, month, 0, 23, 59, 59, 0)
        transactions == getTransactionsByCategory(categoryId)
    IN  SumAmount(SelectSeq(transactions,
            LAMBDA t : /\ DateLE(ParseDate(t.date), endDate)
                       /\ t.type = TRANSACTION_TYPES.EXPENSE))

\* getCategorySpent that reads the store's isLoading: 0 while a request of
\* the transaction store is in flight
getCategorySpentWhenIdle(categoryId, year, month) ==
    LET startDate == NewDate(year, month - 1, 1, 0, 0, 0, 0)
        endDate == NewDate(year, month, 0, 23, 59, 59, 0)
        transactions == getTransactionsByCategory(categoryId)
    IN  IF transactionsState.isLoading THEN 0
        ELSE SumAmount(SelectSeq(transactions,
                 LAMBDA t : /\ DateGE(ParseDate(t.date), startDate)
                            /\ DateLE(ParseDate(t.date), endDate)
                            /\ t.type = TRANSACTION_TYPES.EXPENSE))

getCategorySpent(categoryId, year, month) ==
    LET startDate == NewDate(year, month - 1, 1, 0, 0, 0, 0)
        endDate == NewDate(year, month, 0, 23, 59, 59, 0)
        transactions == getTransactionsByCategory(categoryId)
    IN  SumAmount(SelectSeq(transactions,
            LAMBDA t : /\ DateGE(ParseDate(t.date), startDate)
                       /\ DateLE(ParseDate(t.date), endDate)
                       /\ t.type = TRANSACTION_TYPES.EXPENSE))

\* (spent / amount) * 100 as an exact rational, amount > 0
Percentage(spent, amount) == [num |-> spent * 100, den |-> amount]

\* percentage >= k, for a percentage with a positive denominator
PctGE(p, k) == p.num >= k * p.den
PctGT(p, k) == p.num > k * p.den

\* Math.min(percentage, 100)
MathMin100(p) == IF PctGE(p, 100) THEN [num |-> 100, den |-> 1] ELSE p

\* getBudgetStatus with "exceeded" only above 100 percent
getBudgetStatusAbove100(budget) ==
    LET spent == getCategorySpent(budget.categoryId, budget.year, budget.month)
        percentage == Percentage(spent, budget.amount)
    IN  IF PctGT(percentage, 100) THEN BUDGET_STATUS.EXCEEDED
        ELSE IF PctGE(percentage, 80) THEN BUDGET_STATUS.WARNING
        ELSE BUDGET_STATUS.ON_TRACK

\* getBudgetStatus with "warning" only above 80 percent
getBudgetStatusAbove80(budget) ==
    LET spent == getCategorySpent(budget.categoryId, budget.year, budget.month)
        percentage == Percentage(spent, budget.amount)
    IN  IF PctGE(percentage, 100) THEN BUDGET_STATUS.EXCEEDED
        ELSE IF PctGT(percentage, 80) THEN BUDGET_STATUS.WARNING
        ELSE BUDGET_STATUS.ON_TRACK

getBudgetStatus(budget) ==
    LET spent == getCategorySpent(budget.categoryId, budget.year, budget.month)
        percentage == Percentage(spent, budget.amount)
    IN  IF PctGE(percentage, 100) THEN BUDGET_STATUS.EXCEEDED
        ELSE IF PctGE(percentage, 80) THEN BUDGET_STATUS.WARNING
        ELSE BUDGET_STATUS.ON_TRACK

\* WithSpent without Math.min on the percentage
WithSpentUncapped(budget) ==
    LET spent == getCategorySpent(budget.categoryId, budget.year, budget.month)
    IN  [id |-> budget.id, categoryId |-> budget.categoryId, amount |-> budget.amount,
         year |-> budget.year, month |-> budget.month, isActive |-> budget.isActive,
         spent |-> spent, remaining |-> budget.amount - spent,
         percentage |-> Percentage(spent, budget.amount), status |-> getBudgetStatus(budget)]

\* WithSpent with remaining clamped at 0
WithSpentClamped(budget) ==
    LET spent == getCategorySpent(budget.categoryId, budget.year, budget.month)
    IN  [id |-> budget.id, categoryId |-> budget.categoryId, amount |-> budget.amount,
         year |-> budget.year, month |-> budget.month, isActive |-> budget.isActive,
         spent |-> spent,
         remaining |-> IF spent > budget.amount THEN 0 ELSE budget.amount - spent,
         percentage |-> MathMin100(Percentage(spent, budget.amount)),
         status |-> getBudgetStatus(budget)]

\* {...budget, spent, remaining, percentage, status}
WithSpent(budget) ==
    LET spent == getCategorySpent(budget.categoryId, budget.year, budget.month)
        remaining == budget.amount - spent
        percentage == Percentage(spent, budget.amount)
        status == getBudgetStatus(budget)
    IN  [id |-> budget.id, categoryId |-> budget.categoryId, amount |-> budget.amount,
         year |-> budget.year, month |-> budget.month, isActive |-> budget.isActive,
         spent |-> spent, remaining |-> remaining,
         percentage |-> MathMin100(percentage), status |-> status]

getBudgetsWithSpent ==
    [i \in 1..Len(budgetsState.budgets) |-> WithSpent(budgetsState.budgets[i])]

-----------------------------------------------------------------------------
(* Periods and totals of the transaction store *)

\* an argument that was not given (undefined): no instant
Missing == <<>>

\* transactionDate >= bound and transactionDate <= bound; a comparison with
\* undefined is false
GEBound(d, bound) == bound # Missing /\ DateGE(d, bound)
LEBound(d, bound) == bound # Missing /\ DateLE(d, bound)

\* getTransactionsByPeriod leaving out the transactions dated exactly endDate
getTransactionsByPeriodBeforeEnd(startDate, endDate) ==
    SelectSeq(transactionsState.transactions,
        LAMBDA transaction :
            LET transactionDate == ParseDate(transaction.date)
            IN  /\ GEBound(transactionDate, startDate)
                /\ LEBound(transactionDate, endDate)
                /\ transactionDate # endDate)

getTransactionsByPeriod(startDate, endDate) ==
    SelectSeq(transactionsState.transactions,
        LAMBDA transaction :
            LET transactionDate == ParseDate(transaction.date)
            IN  GEBound(transactionDate, startDate) /\ LEBound(transactionDate, endDate))

\* getTotalIncome filtering by the period whatever bounds are given
getTotalIncomeAlwaysByPeriod(startDate, endDate) ==
    SumAmount(SelectSeq(getTransactionsByPeriod(startDate, endDate),
        LAMBDA t : t.type = TRANSACTION_TYPES.INCOME /\ t.status = TRANSACTION_STATUS.COMPLETED))

getTotalIncome(startDate, endDate) ==
    LET transactions == IF startDate # Missing /\ endDate # Missing
                        THEN getTransactionsByPeriod(startDate, endDate)
                        ELSE transactionsState.transactions
    IN  SumAmount(SelectSeq(transactions,
            LAMBDA t : t.type = TRANSACTION_TYPES.INCOME /\ t.status = TRANSACTION_STATUS.COMPLETED))

getTotalExpenses(startDate, endDate) ==
    LET transactions == IF startDate # Missing /\ endDate # Missing
                        THEN getTransactionsByPeriod(startDate, endDate)
                        ELSE transactionsState.transactions
    IN  SumAmount(SelectSeq(transactions,
            LAMBDA t : t.type = TRANSACTION_TYPES.EXPENSE /\ t.status = TRANSACTION_STATUS.COMPLETED))

-----------------------------------------------------------------------------
(* Totals of the budget store *)

\* the budgets of a period that are active
ActiveBudgetsOf(year, month) ==
    SelectSeq(budgetsState.budgets,
        LAMBDA budget : budget.year = year /\ budget.month = month /\ budget.isActive)

\* Array.reduce((total, budget) => total + budget.amount, 0)
RECURSIVE SumBudgetAmount(_)
SumBudgetAmount(s) == IF s = <<>> THEN 0 ELSE s[1].amount + SumBudgetAmount(Tail(s))

\* getTotalBudgeted counting the inactive budgets too
getTotalBudgetedWithInactive(year, month) ==
    SumBudgetAmount(SelectSeq(budgetsState.budgets,
        LAMBDA budget : budget.year = year /\ budget.month = month))

getTotalBudgeted(year, month) == SumBudgetAmount(ActiveBudgetsOf(year, month))

\* Array.reduce((total, budget) => total + getCategorySpent(...), 0)
RECURSIVE SumSpent(_)
SumSpent(s) ==
    IF s = <<>> THEN 0
    ELSE getCategorySpent(s[1].categoryId, s[1].year, s[1].month) + SumSpent(Tail(s))

RECURSIVE SumSpentOfCategories(_, _, _)
SumSpentOfCategories(C, year, month) ==
    IF C = {} THEN 0
    ELSE LET c == CHOOSE x \in C : TRUE
         IN  getCategorySpent(c, year, month) + SumSpentOfCategories(C \ {c}, year, month)

\* getTotalSpent counting the spend of a category once, however many budgets
\* share it
getTotalSpentPerCategory(year, month) ==
    LET active == ActiveBudgetsOf(year, month)
    IN  SumSpentOfCategories({active[i].categoryId : i \in 1..Len(active)}, year, month)

getTotalSpent(year, month) == SumSpent(ActiveBudgetsOf(year, month))

-----------------------------------------------------------------------------
(* Totals of the account store *)

\* Array.reduce((total, account) => total + account.balance, 0)
RECURSIVE SumBalance(_)
SumBalance(s) == IF s = <<>> THEN 0 ELSE s[1].balance + SumBalance(Tail(s))

MathAbs(x) == IF x < 0 THEN -x ELSE x

\* getTotalBalance counting the credit accounts too
getTotalBalanceWithCredit ==
    SumBalance(SelectSeq(accountsState.accounts, LAMBDA account : account.isActive))

getTotalBalance ==
    SumBalance(SelectSeq(accountsState.accounts,
        LAMBDA account : account.isActive /\ account.type # ACCOUNT_TYPES.CREDIT))

\* getTotalDebt without the balance < 0 filter
getTotalDebtAllCredit ==
    MathAbs(SumBalance(SelectSeq(accountsState.accounts,
        LAMBDA account : account.isActive /\ account.type = ACCOUNT_TYPES.CREDIT)))

getTotalDebt ==
    MathAbs(SumBalance(SelectSeq(accountsState.accounts,
        LAMBDA account : /\ account.isActive
                         /\ account.type = ACCOUNT_TYPES.CREDIT
                         /\ account.balance < 0)))

-----------------------------------------------------------------------------
(* Records of the three collections *)

Date(y, mo, d, h, mi, s, ms) == [y |-> y, mo |-> mo, d |-> d, h |-> h, mi |-> mi, s |-> s, ms |-> ms]

Tx(id, categoryId, type, amount, status, date) ==
    [id |-> id, category |-> [id |-> categoryId], type |-> type, amount |-> amount,
     status |-> status, date |-> date]

Budget(id, categoryId, amount, year, month, isActive) ==
    [id |-> id, categoryId |-> categoryId, amount |-> amount, year |-> year,
     month |-> month, isActive |-> isActive]

Account(id, type, balance, isActive) ==
    [id |-> id, type |-> type, balance |-> balance, isActive |-> isActive]

\* What the API returns to the stores under Spec: the record of a create or
\* an update is one of the pool ...
AccountPool == { Account(1, "checking", 60, TRUE), Account(2, "credit", -300, TRUE) }
TxPool == { Tx(1, "food", "expense", 6, "pending", Date(2024, 3, 15, 12, 0, 0, 0)),
            Tx(2, "salary", "income", 9, "completed", Date(2024, 3, 1, 0, 0, 0, 0)) }
BudgetPool == { Budget(1, "food", 10, 2024, 3, TRUE),
                Budget(2, "transport", 5, 2024, 2, FALSE) }

\* ... and the list of a GET (response.data.dados) is the list of the user
\* the request was made for.
AccountList(u) ==
    IF u = 1 THEN <<Account(1, "checking", 100, TRUE)>>
    ELSE <<Account(2, "credit", 50, TRUE), Account(1, "savings", 7, FALSE)>>
TxList(u) ==
    IF u = 1 THEN <<Tx(1, "food", "expense", 4, "completed", Date(2024, 3, 15, 12, 0, 0, 0))>>
    ELSE <<Tx(2, "food", "expense", 3, "cancelled", Date(2024, 3, 31, 23, 59, 59, 0)),
           Tx(1, "transport", "expense", 2, "completed", Date(2024, 2, 29, 0, 0, 0, 0))>>
BudgetList(u) ==
    IF u = 1 THEN <<Budget(1, "food", 5, 2024, 3, TRUE)>>
    ELSE <<Budget(2, "food", 5, 2024, 3, FALSE), Budget(1, "transport", 5, 2024, 2, TRUE)>>

Ids(s) == {s[i].id : i \in 1..Len(s)}

-----------------------------------------------------------------------------
(* Auth store: authReducer and the cached session *)

authInitialState ==
    [user |-> NoUser, isAuthenticated |-> FALSE, isLoading |-> FALSE, error |-> Null]

\* action.payload is the payload's user or the payload's error
authReducer(state, action) ==
    CASE action.type \in {"LOGIN_START", "REGISTER_START", "RESET_PASSWORD_START"} ->
             [state EXCEPT !.isLoading = TRUE, !.error = Null]
      [] action.type \in {"LOGIN_SUCCESS", "REGISTER_SUCCESS"} ->
             [state EXCEPT !.user = action.payload, !.isAuthenticated = TRUE,
                           !.isLoading = FALSE, !.error = Null]
      [] action.type \in {"LOGIN_FAILURE", "REGISTER_FAILURE", "RESET_PASSWORD_FAILURE"} ->
             [state EXCEPT !.user = NoUser, !.isAuthenticated = FALSE,
                           !.isLoading = FALSE, !.error = action.payload]
      [] action.type = "RESET_PASSWORD_SUCCESS" ->
             [state EXCEPT !.isLoading = FALSE, !.error = Null]
      [] action.type = "LOGOUT" ->
             [state EXCEPT !.user = NoUser, !.isAuthenticated = FALSE,
                           !.isLoading = FALSE, !.error = Null]
      [] action.type = "CLEAR_ERROR" ->
             [state EXCEPT !.error = Null]
      [] action.type = "LOAD_USER" ->
             [state EXCEPT !.user = action.payload,
                           !.isAuthenticated = (action.payload # NoUser),
                           !.isLoading = FALSE]
      [] OTHER -> state

\* localStorage.getItem gives null for an item that is not stored
EmptyStorage == [financas_user |-> Null, financas_token |-> Null]

\* JSON.stringify(user) and the token of the login response
JSONstringify(u) == IF u = 1 THEN "{id:1}" ELSE "{id:2}"
Token(u) == IF u = 1 THEN "token1" ELSE "token2"

\* stored texts: one JSON.parse rejects, and the JSON text null
Corrupt == "{id:"
JSONNull == "null (JSON text)"

\* JSON.parse(s) returns (TRUE) or throws SyntaxError (FALSE)
JSONparses(s) == s = JSONNull \/ \E u \in Users : s = JSONstringify(u)

JSONparse(s) == IF s = JSONNull THEN NoUser ELSE CHOOSE u \in Users : s = JSONstringify(u)

\* truthiness of a getItem result: null and the empty string are falsy
Truthy(s) == s # Null /\ s # ""

\* the auth state and the storage a login of u (a logout, for NoUser) leaves
SessionAuthState(u) ==
    authReducer(authInitialState,
                IF u = NoUser THEN Act("LOGOUT", Null) ELSE Act("LOGIN_SUCCESS", u))

SessionStorage(u) ==
    IF u = NoUser THEN EmptyStorage
    ELSE [financas_user |-> JSONstringify(u), financas_token |-> Token(u)]

-----------------------------------------------------------------------------
(* API calls in flight and the history variable *)

\* A call awaiting its response.  user is the user?.id the calling closure
\* captured; snap is the store's collection when the call was made (history).
Req(store, op, id, u, snap) == [store |-> store, op |-> op, id |-> id, user |-> u, snap |-> snap]

Reqs(store, op) == {r \in BagToSet(inflight) : r.store = store /\ r.op = op}

One(r) == SetToBag({r})

NoDispatch == [accounts |-> "none", transactions |-> "none", budgets |-> "none"]

\* The last step: the handler that ran (op of store), what its API call did
\* (api: "sent", "ok", "fail" or "none"), the failure's message, how the
\* promise the handler returned stands (pending, resolved, rejected) with the
\* message of the Error thrown, the collection at the time of the call, and
\* the reducer action dispatched to each store.
Ev(store, op, api, msg, promise, thrown, snap, dispatched) ==
    [store |-> store, op |-> op, api |-> api, msg |-> msg, promise |-> promise,
     thrown |-> thrown, snap |-> snap, dispatched |-> dispatched]

NoEv == Ev("none", "none", "none", Null, "none", Null, <<>>, NoDispatch)

-----------------------------------------------------------------------------
(* Account store: handlers of AccountsProvider *)

\* load*: the synchronous part of a list load called with user?.id = u
loadDispatch(u) == IF u # NoUser THEN "SET_LOADING" ELSE "none"
loadReq(store, u) == IF u # NoUser THEN One(Req(store, "load", 0, u, <<>>)) ELSE EmptyBag

loadAccountsCall(state, u) ==
    IF u # NoUser THEN accountsReducer(state, Act("SET_LOADING", TRUE)) ELSE state

loadAccountsOk(r, list) ==
    /\ r \in Reqs("accounts", "load")
    /\ accountsState' = accountsReducer(accountsState, Act("LOAD_ACCOUNTS", list))
    /\ inflight' = inflight (-) One(r)
    /\ ev' = Ev("accounts", "loadAccounts", "ok", Null, "resolved", Null, r.snap,
                [NoDispatch EXCEPT !.accounts = "LOAD_ACCOUNTS"])
    /\ UNCHANGED <<authVars, user, calls, transactionsState, budgetsState>>

\* loadAccounts' catch rethrowing into the catch of the transaction mutation
\* that called it
loadAccountsFailRethrown(r, msg) ==
    /\ r \in Reqs("accounts", "load")
    /\ accountsState' = accountsReducer(accountsState, Act("SET_ERROR", msg))
    /\ transactionsState' = transactionsReducer(transactionsState, Act("SET_ERROR", msg))
    /\ inflight' = inflight (-) One(r)
    /\ ev' = Ev("accounts", "loadAccounts", "fail", msg, "rejected", msg, r.snap,
                [NoDispatch EXCEPT !.accounts = "SET_ERROR", !.transactions = "SET_ERROR"])
    /\ UNCHANGED <<authVars, user, calls, budgetsState>>

loadAccountsFail(r, msg) ==
    /\ r \in Reqs("accounts", "load")
    /\ accountsState' = accountsReducer(accountsState, Act("SET_ERROR", msg))
    /\ inflight' = inflight (-) One(r)
    /\ ev' = Ev("accounts", "loadAccounts", "fail", msg, "resolved", Null, r.snap,
                [NoDispatch EXCEPT !.accounts = "SET_ERROR"])
    /\ UNCHANGED <<authVars, user, calls, transactionsState, budgetsState>>

addAccount ==
    /\ user # NoUser
    /\ calls < MaxCalls
    /\ calls' = calls + 1
    /\ accountsState' = accountsReducer(accountsState, Act("SET_LOADING", TRUE))
    /\ inflight' = inflight (+) One(Req("accounts", "add", 0, user, accountsState.accounts))
    /\ ev' = Ev("accounts", "addAccount", "sent", Null, "pending", Null, accountsState.accounts,
                [NoDispatch EXCEPT !.accounts = "SET_LOADING"])
    /\ UNCHANGED <<authVars, user, transactionsState, budgetsState>>

addAccountOk(r, rec) ==
    /\ r \in Reqs("accounts", "add")
    /\ accountsState' = accountsReducer(accountsState, Act("ADD_ACCOUNT", rec))
    /\ inflight' = inflight (-) One(r)
    /\ ev' = Ev("accounts", "addAccount", "ok", Null, "resolved", Null, r.snap,
                [NoDispatch EXCEPT !.accounts = "ADD_ACCOUNT"])
    /\ UNCHANGED <<authVars, user, calls, transactionsState, budgetsState>>

addAccountFail(r, msg) ==
    /\ r \in Reqs("accounts", "add")
    /\ accountsState' = accountsReducer(accountsState, Act("SET_ERROR", msg))
    /\ inflight' = inflight (-) One(r)
    /\ ev' = Ev("accounts", "addAccount", "fail", msg, "rejected", msg, r.snap,
                [NoDispatch EXCEPT !.accounts = "SET_ERROR"])
    /\ UNCHANGED <<authVars, user, calls, transactionsState, budgetsState>>

updateAccount(id) ==
    /\ user # NoUser
    /\ calls < MaxCalls
    /\ calls' = calls + 1
    /\ id \in Ids(accountsState.accounts)
    /\ accountsState' = accountsReducer(accountsState, Act("SET_LOADING", TRUE))
    /\ inflight' = inflight (+) One(Req("accounts", "update", id, user, accountsState.accounts))
    /\ ev' = Ev("accounts", "updateAccount", "sent", Null, "pending", Null, accountsState.accounts,
                [NoDispatch EXCEPT !.accounts = "SET_LOADING"])
    /\ UNCHANGED <<authVars, user, transactionsState, budgetsState>>

updateAccountOk(r, rec) ==
    /\ r \in Reqs("accounts", "update")
    /\ rec.id = r.id
    /\ accountsState' = accountsReducer(accountsState, Act("UPDATE_ACCOUNT", rec))
    /\ inflight' = inflight (-) One(r)
    /\ ev' = Ev("accounts", "updateAccount", "ok", Null, "resolved", Null, r.snap,
                [NoDispatch EXCEPT !.accounts = "UPDATE_ACCOUNT"])
    /\ UNCHANGED <<authVars, user, calls, transactionsState, budgetsState>>

updateAccountFail(r, msg) ==
    /\ r \in Reqs("accounts", "update")
    /\ accountsState' = accountsReducer(accountsState, Act("SET_ERROR", msg))
    /\ inflight' = inflight (-) One(r)
    /\ ev' = Ev("accounts", "updateAccount", "fail", msg, "rejected", msg, r.snap,
                [NoDispatch EXCEPT !.accounts = "SET_ERROR"])
    /\ UNCHANGED <<authVars, user, calls, transactionsState, budgetsState>>

deleteAccount(id) ==
    /\ user # NoUser
    /\ calls < MaxCalls
    /\ calls' = calls + 1
    /\ id \in Ids(accountsState.accounts)
    /\ accountsState' = accountsReducer(accountsState, Act("SET_LOADING", TRUE))
    /\ inflight' = inflight (+) One(Req("accounts", "delete", id, user, accountsState.accounts))
    /\ ev' = Ev("accounts", "deleteAccount", "sent", Null, "pending", Null, accountsState.accounts,
                [NoDispatch EXCEPT !.accounts = "SET_LOADING"])
    /\ UNCHANGED <<authVars, user, transactionsState, budgetsState>>

deleteAccountOk(r) ==
    /\ r \in Reqs("accounts", "delete")
    /\ accountsState' = accountsReducer(accountsState, Act("DELETE_ACCOUNT", r.id))
    /\ inflight' = inflight (-) One(r)
    /\ ev' = Ev("accounts", "deleteAccount", "ok", Null, "resolved", Null, r.snap,
                [NoDispatch EXCEPT !.accounts = "DELETE_ACCOUNT"])
    /\ UNCHANGED <<authVars, user, calls, transactionsState, budgetsState>>

deleteAccountFail(r, msg) ==
    /\ r \in Reqs("accounts", "delete")
    /\ accountsState' = accountsReducer(accountsState, Act("SET_ERROR", msg))
    /\ inflight' = inflight (-) One(r)
    /\ ev' = Ev("accounts", "deleteAccount", "fail", msg, "rejected", msg, r.snap,
                [NoDispatch EXCEPT !.accounts = "SET_ERROR"])
    /\ UNCHANGED <<authVars, user, calls, transactionsState, budgetsState>>

clearErrorAccounts ==
    /\ accountsState.error # Null
    /\ accountsState' = accountsReducer(accountsState, Act("CLEAR_ERROR", Null))
    /\ ev' = Ev("accounts", "clearError", "none", Null, "none", Null, <<>>,
                [NoDispatch EXCEPT !.accounts = "CLEAR_ERROR"])
    /\ UNCHANGED <<authVars, user, calls, inflight, transactionsState, budgetsState>>

-----------------------------------------------------------------------------
(* Transaction store: handlers of TransactionsProvider *)

loadTransactionsCall(state, u) ==
    IF u # NoUser THEN transactionsReducer(state, Act("SET_LOADING", TRUE)) ELSE state

loadTransactionsOk(r, list) ==
    /\ r \in Reqs("transactions", "load")
    /\ transactionsState' = transactionsReducer(transactionsState, Act("LOAD_TRANSACTIONS", list))
    /\ inflight' = inflight (-) One(r)
    /\ ev' = Ev("transactions", "loadTransactions", "ok", Null, "resolved", Null, r.snap,
                [NoDispatch EXCEPT !.transactions = "LOAD_TRANSACTIONS"])
    /\ UNCHANGED <<authVars, user, calls, accountsState, budgetsState>>

loadTransactionsFail(r, msg) ==
    /\ r \in Reqs("transactions", "load")
    /\ transactionsState' = transactionsReducer(transactionsState, Act("SET_ERROR", msg))
    /\ inflight' = inflight (-) One(r)
    /\ ev' = Ev("transactions", "loadTransactions", "fail", msg, "resolved", Null, r.snap,
                [NoDispatch EXCEPT !.transactions = "SET_ERROR"])
    /\ UNCHANGED <<authVars, user, calls, accountsState, budgetsState>>

addTransaction ==
    /\ user # NoUser
    /\ calls < MaxCalls
    /\ calls' = calls + 1
    /\ transactionsState' = transactionsReducer(transactionsState, Act("SET_LOADING", TRUE))
    /\ inflight' = inflight (+) One(Req("transactions", "add", 0, user, transactionsState.transactions))
    /\ ev' = Ev("transactions", "addTransaction", "sent", Null, "pending", Null, transactionsState.transactions,
                [NoDispatch EXCEPT !.transactions = "SET_LOADING"])
    /\ UNCHANGED <<authVars, user, accountsState, budgetsState>>

\* addTransaction's success also subtracting the amount from the stored
\* balances instead of leaving them to the reload
addTransactionOkAdjustsBalance(r, rec) ==
    /\ r \in Reqs("transactions", "add")
    /\ accountsState' =
           LET st == loadAccountsCall(accountsState, r.user)
           IN  [st EXCEPT !.accounts =
                   [i \in DOMAIN st.accounts |->
                       [st.accounts[i] EXCEPT !.balance = st.accounts[i].balance - rec.amount]]]
    /\ transactionsState' = transactionsReducer(transactionsState, Act("ADD_TRANSACTION", rec))
    /\ inflight' = (inflight (-) One(r)) (+) loadReq("accounts", r.user)
    /\ ev' = Ev("transactions", "addTransaction", "ok", Null, "resolved", Null, r.snap,
                [NoDispatch EXCEPT !.transactions = "ADD_TRANSACTION", !.accounts = loadDispatch(r.user)])
    /\ UNCHANGED <<authVars, user, calls, budgetsState>>

addTransactionOk(r, rec) ==
    /\ r \in Reqs("transactions", "add")
    /\ accountsState' = loadAccountsCall(accountsState, r.user)
    /\ transactionsState' = transactionsReducer(transactionsState, Act("ADD_TRANSACTION", rec))
    /\ inflight' = (inflight (-) One(r)) (+) loadReq("accounts", r.user)
    /\ ev' = Ev("transactions", "addTransaction", "ok", Null, "resolved", Null, r.snap,
                [NoDispatch EXCEPT !.transactions = "ADD_TRANSACTION", !.accounts = loadDispatch(r.user)])
    /\ UNCHANGED <<authVars, user, calls, budgetsState>>

addTransactionFail(r, msg) ==
    /\ r \in Reqs("transactions", "add")
    /\ transactionsState' = transactionsReducer(transactionsState, Act("SET_ERROR", msg))
    /\ inflight' = inflight (-) One(r)
    /\ ev' = Ev("transactions", "addTransaction", "fail", msg, "rejected", msg, r.snap,
                [NoDispatch EXCEPT !.transactions = "SET_ERROR"])
    /\ UNCHANGED <<authVars, user, calls, accountsState, budgetsState>>

updateTransaction(id) ==
    /\ user # NoUser
    /\ calls < MaxCalls
    /\ calls' = calls + 1
    /\ id \in Ids(transactionsState.transactions)
    /\ transactionsState' = transactionsReducer(transactionsState, Act("SET_LOADING", TRUE))
    /\ inflight' = inflight (+) One(Req("transactions", "update", id, user, transactionsState.transactions))
    /\ ev' = Ev("transactions", "updateTransaction", "sent", Null, "pending", Null, transactionsState.transactions,
                [NoDispatch EXCEPT !.transactions = "SET_LOADING"])
    /\ UNCHANGED <<authVars, user, accountsState, budgetsState>>

updateTransactionOk(r, rec) ==
    /\ r \in Reqs("transactions", "update")
    /\ rec.id = r.id
    /\ accountsState' = loadAccountsCall(accountsState, r.user)
    /\ transactionsState' = transactionsReducer(transactionsState, Act("UPDATE_TRANSACTION", rec))
    /\ inflight' = (inflight (-) One(r)) (+) loadReq("accounts", r.user)
    /\ ev' = Ev("transactions", "updateTransaction", "ok", Null, "resolved", Null, r.snap,
                [NoDispatch EXCEPT !.transactions = "UPDATE_TRANSACTION", !.accounts = loadDispatch(r.user)])
    /\ UNCHANGED <<authVars, user, calls, budgetsState>>

updateTransactionFail(r, msg) ==
    /\ r \in Reqs("transactions", "update")
    /\ transactionsState' = transactionsReducer(transactionsState, Act("SET_ERROR", msg))
    /\ inflight' = inflight (-) One(r)
    /\ ev' = Ev("transactions", "updateTransaction", "fail", msg, "rejected", msg, r.snap,
                [NoDispatch EXCEPT !.transactions = "SET_ERROR"])
    /\ UNCHANGED <<authVars, user, calls, accountsState, budgetsState>>

deleteTransaction(id) ==
    /\ user # NoUser
    /\ calls < MaxCalls
    /\ calls' = calls + 1
    /\ id \in Ids(transactionsState.transactions)
    /\ transactionsState' = transactionsReducer(transactionsState, Act("SET_LOADING", TRUE))
    /\ inflight' = inflight (+) One(Req("transactions", "delete", id, user, transactionsState.transactions))
    /\ ev' = Ev("transactions", "deleteTransaction", "sent", Null, "pending", Null, transactionsState.transactions,
                [NoDispatch EXCEPT !.transactions = "SET_LOADING"])
    /\ UNCHANGED <<authVars, user, accountsState, budgetsState>>

\* deleteTransaction without the loadAccounts() call
deleteTransactionOkNoReload(r) ==
    /\ r \in Reqs("transactions", "delete")
    /\ transactionsState' = transactionsReducer(transactionsState, Act("DELETE_TRANSACTION", r.id))
    /\ inflight' = inflight (-) One(r)
    /\ ev' = Ev("transactions", "deleteTransaction", "ok", Null, "resolved", Null, r.snap,
                [NoDispatch EXCEPT !.transactions = "DELETE_TRANSACTION"])
    /\ UNCHANGED <<authVars, user, calls, accountsState, budgetsState>>

deleteTransactionOk(r) ==
    /\ r \in Reqs("transactions", "delete")
    /\ accountsState' = loadAccountsCall(accountsState, r.user)
    /\ transactionsState' = transactionsReducer(transactionsState, Act("DELETE_TRANSACTION", r.id))
    /\ inflight' = (inflight (-) One(r)) (+) loadReq("accounts", r.user)
    /\ ev' = Ev("transactions", "deleteTransaction", "ok", Null, "resolved", Null, r.snap,
                [NoDispatch EXCEPT !.transactions = "DELETE_TRANSACTION", !.accounts = loadDispatch(r.user)])
    /\ UNCHANGED <<authVars, user, calls, budgetsState>>

deleteTransactionFail(r, msg) ==
    /\ r \in Reqs("transactions", "delete")
    /\ transactionsState' = transactionsReducer(transactionsState, Act("SET_ERROR", msg))
    /\ inflight' = inflight (-) One(r)
    /\ ev' = Ev("transactions", "deleteTransaction", "fail", msg, "rejected", msg, r.snap,
                [NoDispatch EXCEPT !.transactions = "SET_ERROR"])
    /\ UNCHANGED <<authVars, user, calls, accountsState, budgetsState>>

clearErrorTransactions ==
    /\ transactionsState.error # Null
    /\ transactionsState' = transactionsReducer(transactionsState, Act("CLEAR_ERROR", Null))
    /\ ev' = Ev("transactions", "clearError", "none", Null, "none", Null, <<>>,
                [NoDispatch EXCEPT !.transactions = "CLEAR_ERROR"])
    /\ UNCHANGED <<authVars, user, calls, inflight, accountsState, budgetsState>>

-----------------------------------------------------------------------------
(* Budget store: handlers of BudgetsProvider *)

loadBudgetsCall(state, u) ==
    IF u # NoUser THEN budgetsReducer(state, Act("SET_LOADING", TRUE)) ELSE state

loadBudgetsOk(r, list) ==
    /\ r \in Reqs("budgets", "load")
    /\ budgetsState' = budgetsReducer(budgetsState, Act("LOAD_BUDGETS", list))
    /\ inflight' = inflight (-) One(r)
    /\ ev' = Ev("budgets", "loadBudgets", "ok", Null, "resolved", Null, r.snap,
                [NoDispatch EXCEPT !.budgets = "LOAD_BUDGETS"])
    /\ UNCHANGED <<authVars, user, calls, accountsState, transactionsState>>

loadBudgetsFail(r, msg) ==
    /\ r \in Reqs("budgets", "load")
    /\ budgetsState' = budgetsReducer(budgetsState, Act("SET_ERROR", msg))
    /\ inflight' = inflight (-) One(r)
    /\ ev' = Ev("budgets", "loadBudgets", "fail", msg, "resolved", Null, r.snap,
                [NoDispatch EXCEPT !.budgets = "SET_ERROR"])
    /\ UNCHANGED <<authVars, user, calls, accountsState, transactionsState>>

addBudget ==
    /\ user # NoUser
    /\ calls < MaxCalls
    /\ calls' = calls + 1
    /\ budgetsState' = budgetsReducer(budgetsState, Act("SET_LOADING", TRUE))
    /\ inflight' = inflight (+) One(Req("budgets", "add", 0, user, budgetsState.budgets))
    /\ ev' = Ev("budgets", "addBudget", "sent", Null, "pending", Null, budgetsState.budgets,
                [NoDispatch EXCEPT !.budgets = "SET_LOADING"])
    /\ UNCHANGED <<authVars, user, accountsState, transactionsState>>

addBudgetOk(r, rec) ==
    /\ r \in Reqs("budgets", "add")
    /\ budgetsState' = budgetsReducer(budgetsState, Act("ADD_BUDGET", rec))
    /\ inflight' = inflight (-) One(r)
    /\ ev' = Ev("budgets", "addBudget", "ok", Null, "resolved", Null, r.snap,
                [NoDispatch EXCEPT !.budgets = "ADD_BUDGET"])
    /\ UNCHANGED <<authVars, user, calls, accountsState, transactionsState>>

\* addBudget recording the failure without throwing
addBudgetFailSwallowed(r, msg) ==
    /\ r \in Reqs("budgets", "add")
    /\ budgetsState' = budgetsReducer(budgetsState, Act("SET_ERROR", msg))
    /\ inflight' = inflight (-) One(r)
    /\ ev' = Ev("budgets", "addBudget", "fail", msg, "resolved", Null, r.snap,
                [NoDispatch EXCEPT !.budgets = "SET_ERROR"])
    /\ UNCHANGED <<authVars, user, calls, accountsState, transactionsState>>

addBudgetFail(r, msg) ==
    /\ r \in Reqs("budgets", "add")
    /\ budgetsState' = budgetsReducer(budgetsState, Act("SET_ERROR", msg))
    /\ inflight' = inflight (-) One(r)
    /\ ev' = Ev("budgets", "addBudget", "fail", msg, "rejected", msg, r.snap,
                [NoDispatch EXCEPT !.budgets = "SET_ERROR"])
    /\ UNCHANGED <<authVars, user, calls, accountsState, transactionsState>>

updateBudget(id) ==
    /\ user # NoUser
    /\ calls < MaxCalls
    /\ calls' = calls + 1
    /\ id \in Ids(budgetsState.budgets)
    /\ budgetsState' = budgetsReducer(budgetsState, Act("SET_LOADING", TRUE))
    /\ inflight' = inflight (+) One(Req("budgets", "update", id, user, budgetsState.budgets))
    /\ ev' = Ev("budgets", "updateBudget", "sent", Null, "pending", Null, budgetsState.budgets,
                [NoDispatch EXCEPT !.budgets = "SET_LOADING"])
    /\ UNCHANGED <<authVars, user, accountsState, transactionsState>>

updateBudgetOk(r, rec) ==
    /\ r \in Reqs("budgets", "update")
    /\ rec.id = r.id
    /\ budgetsState' = budgetsReducer(budgetsState, Act("UPDATE_BUDGET", rec))
    /\ inflight' = inflight (-) One(r)
    /\ ev' = Ev("budgets", "updateBudget", "ok", Null, "resolved", Null, r.snap,
                [NoDispatch EXCEPT !.budgets = "UPDATE_BUDGET"])
    /\ UNCHANGED <<authVars, user, calls, accountsState, transactionsState>>

\* updateBudget's catch retrying: the PUT is sent again instead of SET_ERROR
updateBudgetFailRetry(r, msg) ==
    /\ r \in Reqs("budgets", "update")
    /\ inflight' = inflight
    /\ ev' = Ev("budgets", "updateBudget", "fail", msg, "pending", Null, r.snap, NoDispatch)
    /\ UNCHANGED <<authVars, user, calls, accountsState, transactionsState, budgetsState>>

updateBudgetFail(r, msg) ==
    /\ r \in Reqs("budgets", "update")
    /\ budgetsState' = budgetsReducer(budgetsState, Act("SET_ERROR", msg))
    /\ inflight' = inflight (-) One(r)
    /\ ev' = Ev("budgets", "updateBudget", "fail", msg, "rejected", msg, r.snap,
                [NoDispatch EXCEPT !.budgets = "SET_ERROR"])
    /\ UNCHANGED <<authVars, user, calls, accountsState, transactionsState>>

deleteBudget(id) ==
    /\ user # NoUser
    /\ calls < MaxCalls
    /\ calls' = calls + 1
    /\ id \in Ids(budgetsState.budgets)
    /\ budgetsState' = budgetsReducer(budgetsState, Act("SET_LOADING", TRUE))
    /\ inflight' = inflight (+) One(Req("budgets", "delete", id, user, budgetsState.budgets))
    /\ ev' = Ev("budgets", "deleteBudget", "sent", Null, "pending", Null, budgetsState.budgets,
                [NoDispatch EXCEPT !.budgets = "SET_LOADING"])
    /\ UNCHANGED <<authVars, user, accountsState, transactionsState>>

deleteBudgetOk(r) ==
    /\ r \in Reqs("budgets", "delete")
    /\ budgetsState' = budgetsReducer(budgetsState, Act("DELETE_BUDGET", r.id))
    /\ inflight' = inflight (-) One(r)
    /\ ev' = Ev("budgets", "deleteBudget", "ok", Null, "resolved", Null, r.snap,
                [NoDispatch EXCEPT !.budgets = "DELETE_BUDGET"])
    /\ UNCHANGED <<authVars, user, calls, accountsState, transactionsState>>

deleteBudgetFail(r, msg) ==
    /\ r \in Reqs("budgets", "delete")
    /\ budgetsState' = budgetsReducer(budgetsState, Act("SET_ERROR", msg))
    /\ inflight' = inflight (-) One(r)
    /\ ev' = Ev("budgets", "deleteBudget", "fail", msg, "rejected", msg, r.snap,
                [NoDispatch EXCEPT !.budgets = "SET_ERROR"])
    /\ UNCHANGED <<authVars, user, calls, accountsState, transactionsState>>

clearErrorBudgets ==
    /\ budgetsState.error # Null
    /\ budgetsState' = budgetsReducer(budgetsState, Act("CLEAR_ERROR", Null))
    /\ ev' = Ev("budgets", "clearError", "none", Null, "none", Null, <<>>,
                [NoDispatch EXCEPT !.budgets = "CLEAR_ERROR"])
    /\ UNCHANGED <<authVars, user, calls, inflight, accountsState, transactionsState>>

-----------------------------------------------------------------------------
(* Auth store: handlers of AuthProvider *)

\* The last step of an auth handler: as Ev, with the auth action dispatched.
AuthEv(op, api, msg, promise, thrown, type) ==
    [store |-> "auth", op |-> op, api |-> api, msg |-> msg, promise |-> promise,
     thrown |-> thrown, snap |-> <<>>, dispatched |-> NoDispatch, auth |-> type]

\* loadStoredUser restoring the user when only financas_user is stored
StoredSessionIgnoresToken(readable) ==
    IF ~readable THEN NoUser
    ELSE IF Truthy(localStorage.financas_user)
         THEN IF JSONparses(localStorage.financas_user)
              THEN JSONparse(localStorage.financas_user)
              ELSE NoUser
         ELSE NoUser

\* The user loadStoredUser dispatches LOAD_USER with.  readable is FALSE when
\* localStorage.getItem throws; a throw of getItem or of JSON.parse is caught.
StoredSession(readable) ==
    IF ~readable THEN NoUser
    ELSE IF Truthy(localStorage.financas_user) /\ Truthy(localStorage.financas_token)
         THEN IF JSONparses(localStorage.financas_user)
              THEN JSONparse(localStorage.financas_user)
              ELSE NoUser
         ELSE NoUser

\* the mount effect of AuthProvider
loadStoredUser(readable) ==
    /\ authMounted = FALSE
    /\ authMounted' = TRUE
    /\ authState' = authReducer(authState, Act("LOAD_USER", StoredSession(readable)))
    /\ ev' = AuthEv("loadStoredUser", "none", Null, "none", Null, "LOAD_USER")
    /\ UNCHANGED <<localStorage, user, accountsState, transactionsState, budgetsState,
                   inflight, calls>>

\* login with the credentials of user u
login(u) ==
    /\ authMounted
    /\ calls < MaxCalls
    /\ calls' = calls + 1
    /\ authState' = authReducer(authState, Act("LOGIN_START", Null))
    /\ inflight' = inflight (+) One(Req("auth", "login", 0, u, <<>>))
    /\ ev' = AuthEv("login", "sent", Null, "pending", Null, "LOGIN_START")
    /\ UNCHANGED <<localStorage, authMounted, user, accountsState, transactionsState, budgetsState>>

loginOk(r) ==
    /\ r \in Reqs("auth", "login")
    /\ localStorage' = [financas_user |-> JSONstringify(r.user), financas_token |-> Token(r.user)]
    /\ authState' = authReducer(authState, Act("LOGIN_SUCCESS", r.user))
    /\ inflight' = inflight (-) One(r)
    /\ ev' = AuthEv("login", "ok", Null, "resolved", Null, "LOGIN_SUCCESS")
    /\ UNCHANGED <<authMounted, user, calls, accountsState, transactionsState, budgetsState>>

loginFail(r, msg) ==
    /\ r \in Reqs("auth", "login")
    /\ authState' = authReducer(authState, Act("LOGIN_FAILURE", msg))
    /\ inflight' = inflight (-) One(r)
    /\ ev' = AuthEv("login", "fail", msg, "rejected", msg, "LOGIN_FAILURE")
    /\ UNCHANGED <<localStorage, authMounted, user, calls, accountsState, transactionsState,
                   budgetsState>>

\* register the new user u
register(u) ==
    /\ authMounted
    /\ calls < MaxCalls
    /\ calls' = calls + 1
    /\ authState' = authReducer(authState, Act("REGISTER_START", Null))
    /\ inflight' = inflight (+) One(Req("auth", "register", 0, u, <<>>))
    /\ ev' = AuthEv("register", "sent", Null, "pending", Null, "REGISTER_START")
    /\ UNCHANGED <<localStorage, authMounted, user, accountsState, transactionsState, budgetsState>>

registerOk(r) ==
    /\ r \in Reqs("auth", "register")
    /\ localStorage' = [financas_user |-> JSONstringify(r.user), financas_token |-> Token(r.user)]
    /\ authState' = authReducer(authState, Act("REGISTER_SUCCESS", r.user))
    /\ inflight' = inflight (-) One(r)
    /\ ev' = AuthEv("register", "ok", Null, "resolved", Null, "REGISTER_SUCCESS")
    /\ UNCHANGED <<authMounted, user, calls, accountsState, transactionsState, budgetsState>>

registerFail(r, msg) ==
    /\ r \in Reqs("auth", "register")
    /\ authState' = authReducer(authState, Act("REGISTER_FAILURE", msg))
    /\ inflight' = inflight (-) One(r)
    /\ ev' = AuthEv("register", "fail", msg, "rejected", msg, "REGISTER_FAILURE")
    /\ UNCHANGED <<localStorage, authMounted, user, calls, accountsState, transactionsState,
                   budgetsState>>

resetPassword ==
    /\ authMounted
    /\ calls < MaxCalls
    /\ calls' = calls + 1
    /\ authState' = authReducer(authState, Act("RESET_PASSWORD_START", Null))
    /\ inflight' = inflight (+) One(Req("auth", "resetPassword", 0, NoUser, <<>>))
    /\ ev' = AuthEv("resetPassword", "sent", Null, "pending", Null, "RESET_PASSWORD_START")
    /\ UNCHANGED <<localStorage, authMounted, user, accountsState, transactionsState, budgetsState>>

resetPasswordOk(r) ==
    /\ r \in Reqs("auth", "resetPassword")
    /\ authState' = authReducer(authState, Act("RESET_PASSWORD_SUCCESS", Null))
    /\ inflight' = inflight (-) One(r)
    /\ ev' = AuthEv("resetPassword", "ok", Null, "resolved", Null, "RESET_PASSWORD_SUCCESS")
    /\ UNCHANGED <<localStorage, authMounted, user, calls, accountsState, transactionsState,
                   budgetsState>>

resetPasswordFail(r, msg) ==
    /\ r \in Reqs("auth", "resetPassword")
    /\ authState' = authReducer(authState, Act("RESET_PASSWORD_FAILURE", msg))
    /\ inflight' = inflight (-) One(r)
    /\ ev' = AuthEv("resetPassword", "fail", msg, "rejected", msg, "RESET_PASSWORD_FAILURE")
    /\ UNCHANGED <<localStorage, authMounted, user, calls, accountsState, transactionsState,
                   budgetsState>>

logout ==
    /\ authMounted
    /\ calls < MaxCalls
    /\ calls' = calls + 1
    /\ localStorage' = EmptyStorage
    /\ authState' = authReducer(authState, Act("LOGOUT", Null))
    /\ ev' = AuthEv("logout", "none", Null, "none", Null, "LOGOUT")
    /\ UNCHANGED <<authMounted, user, inflight, accountsState, transactionsState, budgetsState>>

clearErrorAuth ==
    /\ authState.error # Null
    /\ authState' = authReducer(authState, Act("CLEAR_ERROR", Null))
    /\ ev' = AuthEv("clearError", "none", Null, "none", Null, "CLEAR_ERROR")
    /\ UNCHANGED <<localStorage, authMounted, user, calls, inflight, accountsState,
                   transactionsState, budgetsState>>

\* The effects of the three providers running after the auth user's id
\* changed: each calls its list load with the new user.
providersEffect ==
    /\ authState.user # user
    /\ user' = authState.user
    /\ accountsState' = loadAccountsCall(accountsState, authState.user)
    /\ transactionsState' = loadTransactionsCall(transactionsState, authState.user)
    /\ budgetsState' = loadBudgetsCall(budgetsState, authState.user)
    /\ inflight' = inflight (+) loadReq("accounts", authState.user)
                            (+) loadReq("transactions", authState.user)
                            (+) loadReq("budgets", authState.user)
    /\ ev' = Ev("all", "useEffect", IF authState.user # NoUser THEN "sent" ELSE "none", Null,
                "pending", Null, <<>>,
                [st \in {"accounts", "transactions", "budgets"} |-> loadDispatch(authState.user)])
    /\ UNCHANGED <<authVars, calls>>

-----------------------------------------------------------------------------
(* Session change: the three providers' effects on [user?.id] *)

\* The authenticated user's id becomes u (login, logout, another login); the
\* effects of the three providers then each call their list load.
userChanged(u) ==
    /\ u # user
    /\ calls < MaxCalls
    /\ calls' = calls + 1
    /\ user' = u
    /\ authState' = SessionAuthState(u)
    /\ localStorage' = SessionStorage(u)
    /\ authMounted' = authMounted
    /\ accountsState' = loadAccountsCall(accountsState, u)
    /\ transactionsState' = loadTransactionsCall(transactionsState, u)
    /\ budgetsState' = loadBudgetsCall(budgetsState, u)
    /\ inflight' = inflight (+) loadReq("accounts", u) (+) loadReq("transactions", u)
                            (+) loadReq("budgets", u)
    /\ ev' = Ev("all", "useEffect", IF u # NoUser THEN "sent" ELSE "none", Null, "pending",
                Null, <<>>, [st \in {"accounts", "transactions", "budgets"} |-> loadDispatch(u)])

-----------------------------------------------------------------------------
(* Spec: the three stores from start-up *)

Init ==
    /\ user = NoUser
    /\ authState = SessionAuthState(NoUser)
    /\ localStorage = SessionStorage(NoUser)
    /\ authMounted = TRUE
    /\ accountsState = accountsInitialState
    /\ transactionsState = transactionsInitialState
    /\ budgetsState = budgetsInitialState
    /\ inflight = EmptyBag
    /\ calls = 0
    /\ ev = NoEv

AccountsNext ==
    \/ \E r \in BagToSet(inflight) : loadAccountsOk(r, AccountList(r.user))
    \/ \E r \in BagToSet(inflight) : loadAccountsFail(r, FailureMessage(r))
    \/ addAccount
    \/ \E r \in BagToSet(inflight), rec \in AccountPool : addAccountOk(r, rec)
    \/ \E r \in BagToSet(inflight) : addAccountFail(r, FailureMessage(r))
    \/ \E id \in Ids(accountsState.accounts) : updateAccount(id)
    \/ \E r \in BagToSet(inflight), rec \in AccountPool : updateAccountOk(r, rec)
    \/ \E r \in BagToSet(inflight) : updateAccountFail(r, FailureMessage(r))
    \/ \E id \in Ids(accountsState.accounts) : deleteAccount(id)
    \/ \E r \in BagToSet(inflight) : deleteAccountOk(r)
    \/ \E r \in BagToSet(inflight) : deleteAccountFail(r, FailureMessage(r))
    \/ clearErrorAccounts

TransactionsNext ==
    \/ \E r \in BagToSet(inflight) : loadTransactionsOk(r, TxList(r.user))
    \/ \E r \in BagToSet(inflight) : loadTransactionsFail(r, FailureMessage(r))
    \/ addTransaction
    \/ \E r \in BagToSet(inflight), rec \in TxPool : addTransactionOk(r, rec)
    \/ \E r \in BagToSet(inflight) : addTransactionFail(r, FailureMessage(r))
    \/ \E id \in Ids(transactionsState.transactions) : updateTransaction(id)
    \/ \E r \in BagToSet(inflight), rec \in TxPool : updateTransactionOk(r, rec)
    \/ \E r \in BagToSet(inflight) : updateTransactionFail(r, FailureMessage(r))
    \/ \E id \in Ids(transactionsState.transactions) : deleteTransaction(id)
    \/ \E r \in BagToSet(inflight) : deleteTransactionOk(r)
    \/ \E r \in BagToSet(inflight) : deleteTransactionFail(r, FailureMessage(r))
    \/ clearErrorTransactions

BudgetsNext ==
    \/ \E r \in BagToSet(inflight) : loadBudgetsOk(r, BudgetList(r.user))
    \/ \E r \in BagToSet(inflight) : loadBudgetsFail(r, FailureMessage(r))
    \/ addBudget
    \/ \E r \in BagToSet(inflight), rec \in BudgetPool : addBudgetOk(r, rec)
    \/ \E r \in BagToSet(inflight) : addBudgetFail(r, FailureMessage(r))
    \/ \E id \in Ids(budgetsState.budgets) : updateBudget(id)
    \/ \E r \in BagToSet(inflight), rec \in BudgetPool : updateBudgetOk(r, rec)
    \/ \E r \in BagToSet(inflight) : updateBudgetFail(r, FailureMessage(r))
    \/ \E id \in Ids(budgetsState.budgets) : deleteBudget(id)
    \/ \E r \in BagToSet(inflight) : deleteBudgetOk(r)
    \/ \E r \in BagToSet(inflight) : deleteBudgetFail(r, FailureMessage(r))
    \/ clearErrorBudgets

Next ==
    \/ \E u \in Users \cup {NoUser} : userChanged(u)
    \/ AccountsNext
    \/ TransactionsNext
    \/ BudgetsNext

Spec == Init /\ [][Next]_vars

-----------------------------------------------------------------------------
(* SpecLoaded: the three stores of a running session.  The run starts once  *)
(* the start-up loads of a logged-in user have been answered and follows    *)
(* two further handler calls, so that two requests of one store overlap.    *)

InitLoaded ==
    \E u \in Users :
        /\ user = u
        /\ authState = SessionAuthState(u)
        /\ localStorage = SessionStorage(u)
        /\ authMounted = TRUE
        /\ accountsState = accountsReducer(accountsInitialState, Act("LOAD_ACCOUNTS", AccountList(u)))
        /\ transactionsState =
               transactionsReducer(transactionsInitialState, Act("LOAD_TRANSACTIONS", TxList(u)))
        /\ budgetsState = budgetsReducer(budgetsInitialState, Act("LOAD_BUDGETS", BudgetList(u)))
        /\ inflight = EmptyBag
        /\ calls = MaxCalls - 2
        /\ ev = NoEv

SpecLoaded == InitLoaded /\ [][Next]_vars

-----------------------------------------------------------------------------
(* SpecDerive: the derivations over drawn collections.  The run starts once *)
(* the start-up loads of user 1 have been answered, with the transaction    *)
(* and budget collections any lists the API may have returned; transactions *)
(* are then created through addTransaction, for which the run has one      *)
(* handler invocation left.                                                 *)

Years == {2023, 2024}
Months == 1..12

\* last day of the month: new Date(year, month, 0).getDate()
LastDay(year, month) == MakeDay(year, month, 0) - MakeDay(year, month - 1, 1) + 1

DeriveTxPool ==
    { Tx(1, "food", "expense", 1, "cancelled", Date(2024, 3, 15, 12, 0, 0, 0)),
      Tx(2, "food", "expense", 4, "pending", Date(2024, 3, 1, 0, 0, 0, 0)),
      Tx(3, "food", "income", 4, "completed", Date(2024, 3, 15, 12, 0, 0, 0)),
      Tx(4, "transport", "expense", 4, "completed", Date(2024, 3, 31, 23, 59, 59, 0)),
      Tx(5, "food", "expense", 4, "completed", Date(2024, 2, 29, 12, 0, 0, 0)) }

DeriveBudgetPool ==
    { Budget(1, "food", 5, 2024, 3, TRUE), Budget(2, "transport", 4, 2024, 3, FALSE),
      Budget(4, "food", 500, 2024, 3, TRUE) }

SeqsUpTo(S, n) == UNION {[1..k -> S] : k \in 0..n}

\* one food expense of amount 7 on an edge of a month
EdgeTx(date) == Tx(9, "food", "expense", 7, "completed", date)
FirstInstant(y, m) == Date(y, m, 1, 0, 0, 0, 0)
LastSecond(y, m) == Date(y, m, LastDay(y, m), 23, 59, 59, 0)
LastMillisecond(y, m) == Date(y, m, LastDay(y, m), 23, 59, 59, 999)
EdgeDates == UNION {{FirstInstant(y, m), LastSecond(y, m), LastMillisecond(y, m)} :
                    y \in Years, m \in Months}

\* the transactions of the worked example: March 2024 food expenses of 200
\* and 150, a February 2024 food expense of 100, and the March expense of
\* 200 created afterwards
ScenarioTxs ==
    << Tx(11, "food", "expense", 200, "completed", Date(2024, 3, 5, 10, 0, 0, 0)),
       Tx(12, "food", "expense", 150, "completed", Date(2024, 3, 20, 18, 30, 0, 0)),
       Tx(13, "food", "expense", 100, "completed", Date(2024, 2, 10, 9, 0, 0, 0)) >>
ScenarioAdded == Tx(14, "food", "expense", 200, "completed", Date(2024, 3, 25, 8, 0, 0, 0))
ScenarioBudget == Budget(4, "food", 500, 2024, 3, TRUE)

\* the records POST /transacoes returns under SpecDerive
DeriveAdded == {ScenarioAdded, Tx(2, "food", "expense", 4, "pending", Date(2024, 3, 1, 0, 0, 0, 0))}

DeriveTxLists ==
    SeqsUpTo(DeriveTxPool, DeriveMaxTx) \cup {<<EdgeTx(d)>> : d \in EdgeDates}
        \cup {ScenarioTxs}

InitDerive ==
    /\ user = 1
    /\ authState = SessionAuthState(1)
    /\ localStorage = SessionStorage(1)
    /\ authMounted = TRUE
    /\ accountsState = [accountsInitialState EXCEPT !.accounts = AccountList(1)]
    /\ transactionsState \in
         {[transactionsInitialState EXCEPT !.transactions = l] : l \in DeriveTxLists}
    /\ budgetsState \in
         {[budgetsInitialState EXCEPT !.budgets = l] :
             l \in SeqsUpTo(DeriveBudgetPool, DeriveMaxBudgets)}
    /\ inflight = EmptyBag
    /\ calls = MaxCalls - 1
    /\ ev = NoEv

NextDerive ==
    \/ addTransaction
    \/ \E r \in BagToSet(inflight), rec \in DeriveAdded : addTransactionOk(r, rec)
    \/ \E r \in BagToSet(inflight) : addTransactionFail(r, FailureMessage(r))
    \/ \E r \in BagToSet(inflight) : loadAccountsOk(r, AccountList(r.user))
    \/ \E r \in BagToSet(inflight) : loadAccountsFail(r, FailureMessage(r))

SpecDerive == InitDerive /\ [][NextDerive]_vars

-----------------------------------------------------------------------------
(* Budget status and spend (SpecDerive) *)

StoredBudgets == {budgetsState.budgets[i] : i \in 1..Len(budgetsState.budgets)}
SpentOf(B) == getCategorySpent(B.categoryId, B.year, B.month)

\* C1: for every stored budget B with amount > 0, getBudgetStatus(B) is
\* 'exceeded' if and only if getCategorySpent(B.categoryId, B.year, B.month)
\* >= B.amount, equality included.
C1_ExceededIffSpentAtLeastAmount ==
    \A B \in StoredBudgets :
        B.amount > 0 =>
            ((getBudgetStatus(B) = "exceeded") <=> (SpentOf(B) >= B.amount))

\* a budget spent exactly to its amount, reported exceeded
C1_Witness ==
    \E B \in StoredBudgets :
        B.amount > 0 /\ SpentOf(B) = B.amount /\ getBudgetStatus(B) = "exceeded"

\* C2: for every stored budget B with amount > 0, getBudgetStatus(B) is
\* 'warning' iff 0.8*amount <= spent < amount and 'on_track' iff
\* spent < 0.8*amount; with 'exceeded' the three statuses partition all cases.
C2_WarningBand ==
    \A B \in StoredBudgets :
        B.amount > 0 =>
            /\ getBudgetStatus(B) \in {"on_track", "warning", "exceeded"}
            /\ (getBudgetStatus(B) = "warning")
                  <=> (4 * B.amount <= 5 * SpentOf(B) /\ SpentOf(B) < B.amount)
            /\ (getBudgetStatus(B) = "on_track") <=> (5 * SpentOf(B) < 4 * B.amount)

\* a budget spent to exactly 80 percent, reported warning
C2_Witness ==
    \E B \in StoredBudgets :
        B.amount > 0 /\ 5 * SpentOf(B) = 4 * B.amount /\ getBudgetStatus(B) = "warning"

CategoryIds == {"food", "transport", "salary"}

\* the date lies in the window [day 1 00:00:00.000, last day 23:59:59.000]
\* of (year, month), read off the date's calendar fields
InMonthWindow(date, year, month) ==
    /\ date.y = year
    /\ date.mo = month
    /\ ~(date.d = LastDay(year, month) /\ date.h = 23 /\ date.mi = 59 /\ date.s = 59
         /\ date.ms > 0)

NextMonth(y, m) == IF m = 12 THEN <<y + 1, 1>> ELSE <<y, m + 1>>
PrevMonth(y, m) == IF m = 1 THEN <<y - 1, 12>> ELSE <<y, m - 1>>

\* the months of the stored transactions and of the stored budgets, with the
\* month before and the month after each
QueriedMonths ==
    LET dated == {<<transactionsState.transactions[i].date.y,
                    transactionsState.transactions[i].date.mo>> :
                        i \in 1..Len(transactionsState.transactions)}
                 \cup {<<budgetsState.budgets[i].year, budgetsState.budgets[i].month>> :
                        i \in 1..Len(budgetsState.budgets)}
    IN  UNION {{p, NextMonth(p[1], p[2]), PrevMonth(p[1], p[2])} : p \in dated}

Counted(categoryId, year, month) ==
    {i \in 1..Len(transactionsState.transactions) :
        LET t == transactionsState.transactions[i]
        IN  /\ t.category.id = categoryId
            /\ t.type = "expense"
            /\ InMonthWindow(t.date, year, month)}

RECURSIVE SumOver(_)
SumOver(I) ==
    IF I = {} THEN 0
    ELSE LET i == CHOOSE j \in I : TRUE
         IN  transactionsState.transactions[i].amount + SumOver(I \ {i})

\* C3: getCategorySpent(categoryId, year, month) is the sum of amount over
\* exactly the stored transactions of that category, of type expense, dated
\* in the month window, whatever their status: pending and cancelled
\* expenses count, income and other categories never do.
C3_SpentIsSumOfCategoryExpenses ==
    \A c \in CategoryIds, p \in QueriedMonths :
        getCategorySpent(c, p[1], p[2]) = SumOver(Counted(c, p[1], p[2]))

\* a pending or cancelled expense is all that is counted, next to an income
\* of the same category in the same month
C3_Witness ==
    \E i, j \in 1..Len(transactionsState.transactions) :
        LET t == transactionsState.transactions[i]
            u == transactionsState.transactions[j]
        IN  /\ t.type = "expense" /\ t.status \in {"pending", "cancelled"}
            /\ u.type = "income" /\ u.category.id = t.category.id
            /\ InMonthWindow(t.date, 2024, 3) /\ InMonthWindow(u.date, 2024, 3)
            /\ getCategorySpent(t.category.id, 2024, 3) = t.amount

\* percentage <= 100
PctLE100(p) == p.num <= 100 * p.den

\* C4: in every reachable state every record of getBudgetsWithSpent has
\* percentage <= 100, also when spent exceeds the budget's amount.
C4_PercentageAtMost100 ==
    \A i \in 1..Len(getBudgetsWithSpent) : PctLE100(getBudgetsWithSpent[i].percentage)

\* a record whose spend is above the amount, shown at 100 percent
C4_Witness ==
    \E i \in 1..Len(getBudgetsWithSpent) :
        LET v == getBudgetsWithSpent[i]
        IN  v.spent > v.amount /\ v.percentage = [num |-> 100, den |-> 1]

\* C5: getBudgetsWithSpent has one record per stored budget, active or not,
\* in collection order, with the budget's own fields, spent =
\* getCategorySpent(categoryId, year, month) and remaining = amount - spent,
\* negative whenever spent > amount.
C5_OneRecordPerBudget ==
    /\ Len(getBudgetsWithSpent) = Len(budgetsState.budgets)
    /\ \A i \in 1..Len(budgetsState.budgets) :
          LET B == budgetsState.budgets[i]
              v == getBudgetsWithSpent[i]
          IN  /\ \A f \in DOMAIN B : v[f] = B[f]
              /\ v.spent = SpentOf(B)
              /\ v.remaining = B.amount - v.spent
              /\ (v.spent > B.amount => v.remaining < 0)

\* two budgets, the second inactive, the first overspent
C5_Witness ==
    /\ Len(budgetsState.budgets) = 2
    /\ ~budgetsState.budgets[2].isActive
    /\ budgetsState.budgets[1].id # budgetsState.budgets[2].id
    /\ getBudgetsWithSpent[1].remaining < 0

OnlyTx(date) ==
    /\ Len(transactionsState.transactions) = 1
    /\ transactionsState.transactions[1].type = "expense"
    /\ transactionsState.transactions[1].category.id = "food"
    /\ transactionsState.transactions[1].date = date

\* C6: for every month 1..12, December and leap-year February included: a
\* matching expense dated in the last millisecond of the month's last day is
\* counted by getCategorySpent(category, year, month), so is one dated at the
\* first instant of day 1, and one dated at the first instant of the next
\* month is not counted.
C6_MonthBoundary ==
    Len(transactionsState.transactions) = 1 =>
        \A y \in Years, m \in Months :
            LET amount == transactionsState.transactions[1].amount
                next == NextMonth(y, m)
            IN  /\ OnlyTx(LastMillisecond(y, m)) => getCategorySpent("food", y, m) = amount
                /\ OnlyTx(FirstInstant(y, m)) => getCategorySpent("food", y, m) = amount
                /\ OnlyTx(FirstInstant(next[1], next[2])) =>
                       getCategorySpent("food", y, m) = 0

\* C7: with the budget {500, food, 2024, 3}, March food expenses of 200 and
\* 150 and a February food expense of 100, getBudgetsWithSpent reports spent
\* 350, remaining 150, percentage 70, on_track; once a further March food
\* expense of 200 has been added it reports spent 550, remaining -50,
\* percentage 100, exceeded.
C7_Scenario ==
    budgetsState.budgets = <<ScenarioBudget>> =>
        LET v == getBudgetsWithSpent[1]
        IN  /\ transactionsState.transactions = ScenarioTxs =>
                /\ v.spent = 350 /\ v.remaining = 150
                /\ v.percentage.num = 70 * v.percentage.den
                /\ v.status = "on_track"
            /\ transactionsState.transactions = <<ScenarioAdded>> \o ScenarioTxs =>
                /\ v.spent = 550 /\ v.remaining = -50
                /\ v.percentage = [num |-> 100, den |-> 1]
                /\ v.status = "exceeded"

\* the further expense has just been added by ADD_TRANSACTION
C7_Witness ==
    /\ budgetsState.budgets = <<ScenarioBudget>>
    /\ transactionsState.transactions = <<ScenarioAdded>> \o ScenarioTxs
    /\ ev.op = "addTransaction" /\ ev.api = "ok"

-----------------------------------------------------------------------------
(* Failures and confirmed changes of the three stores (Spec) *)

Stores == {"accounts", "transactions", "budgets"}

Collection(st) ==
    CASE st = "accounts" -> accountsState.accounts
      [] st = "transactions" -> transactionsState.transactions
      [] st = "budgets" -> budgetsState.budgets

StoreState(st) ==
    CASE st = "accounts" -> accountsState
      [] st = "transactions" -> transactionsState
      [] st = "budgets" -> budgetsState

LoadOps == {"loadAccounts", "loadTransactions", "loadBudgets"}
MutationOps == {"addAccount", "updateAccount", "deleteAccount",
                "addTransaction", "updateTransaction", "deleteTransaction",
                "addBudget", "updateBudget", "deleteBudget"}

\* the last step handled the failure of a create, update or delete
MutationFailed == ev.api = "fail" /\ ev.op \in MutationOps

\* C8 as stated: when the API call of a create, update or delete fails, the
\* store's collection after the failure is the collection before the call,
\* the store's error is the failure's message and isLoading is false.
C8_CollectionAsBeforeTheCall ==
    MutationFailed =>
        /\ Collection(ev.store) = ev.snap
        /\ StoreState(ev.store).error = ev.msg
        /\ StoreState(ev.store).isLoading = FALSE

\* C8 amended: handling the failure of a create, update or delete leaves the
\* store's collection as it was when the failure arrived (what a response of
\* another call of that store changed in between stays), sets the store's
\* error to the failure's message and isLoading to false.
C8_FailureLeavesCollection ==
    [][\A st \in Stores :
          (MutationFailed' /\ ev'.store = st) =>
              /\ Collection(st)' = Collection(st)
              /\ StoreState(st)'.error = ev'.msg
              /\ StoreState(st)'.isLoading = FALSE]_vars

\* a create, update or delete of a non-empty collection has just failed
C8_Witness ==
    /\ MutationFailed
    /\ Collection(ev.store) # <<>>
    /\ Collection(ev.store) = ev.snap

SuccessTypes ==
    {"LOAD_ACCOUNTS", "ADD_ACCOUNT", "UPDATE_ACCOUNT", "DELETE_ACCOUNT",
     "LOAD_TRANSACTIONS", "ADD_TRANSACTION", "UPDATE_TRANSACTION", "DELETE_TRANSACTION",
     "LOAD_BUDGETS", "ADD_BUDGET", "UPDATE_BUDGET", "DELETE_BUDGET"}

\* C9: every change of accounts, transactions or budgets is made by the
\* action of a success response (LOAD, ADD, UPDATE or DELETE), never by the
\* start of a request (SET_LOADING) nor by a failure (SET_ERROR).
C9_OnlyConfirmedChanges ==
    [][\A st \in Stores :
          Collection(st)' # Collection(st) =>
              /\ ev'.dispatched[st] \in SuccessTypes
              /\ ev'.api = "ok"]_vars

\* the response of a create has just changed a collection that stayed as it
\* was while the request was in flight
C9_Witness ==
    /\ ev.api = "ok"
    /\ ev.op \in {"addAccount", "addTransaction", "addBudget"}
    /\ ev.snap # <<>>
    /\ Len(Collection(ev.store)) = Len(ev.snap) + 1

\* C10 as stated: every remote failure of every store operation, the list
\* loads included, is recorded verbatim in the store's error and re-thrown
\* to the caller.
C10_EveryFailureRethrown ==
    ev.api = "fail" =>
        /\ StoreState(ev.store).error = ev.msg
        /\ ev.promise = "rejected"
        /\ ev.thrown = ev.msg

\* C10 amended: every remote failure is recorded verbatim in the store's
\* error; the failure of a create, update or delete is re-thrown to the
\* caller with the same message, the failure of a list load is not re-thrown
\* (the load's promise resolves).
C10_FailureRecordedAndMutationsRethrow ==
    ev.api = "fail" =>
        /\ StoreState(ev.store).error = ev.msg
        /\ ev.msg \in Messages
        /\ ev.op \in MutationOps => (ev.promise = "rejected" /\ ev.thrown = ev.msg)
        /\ ev.op \in LoadOps => (ev.promise = "resolved" /\ ev.thrown = Null)

\* a list load has just failed
C10_Witness ==
    /\ ev.api = "fail"
    /\ ev.op \in LoadOps
    /\ StoreState(ev.store).error = "E1"

-----------------------------------------------------------------------------
(* Account reloads started by transaction mutations (Spec) *)

TransactionMutationOps == {"addTransaction", "updateTransaction", "deleteTransaction"}

\* number of GET /contas calls awaiting their response in bag b
AccountLoads(b) ==
    LET loads == {r \in BagToSet(b) : r.store = "accounts" /\ r.op = "load"}
    IN  IF loads = {} THEN 0
        ELSE BagCardinality([r \in loads |-> b[r]])

\* C11: the step in which the API confirms an addTransaction, updateTransaction
\* or deleteTransaction starts exactly one account reload (one SET_LOADING of
\* the account store, one more GET of the accounts in flight); the step that
\* sends the mutation's request and the step that handles its failure start
\* none.
C11_OneAccountReloadPerConfirmedMutation ==
    [][(ev'.op \in TransactionMutationOps) =>
          IF ev'.api = "ok"
          THEN /\ AccountLoads(inflight') = AccountLoads(inflight) + 1
               /\ ev'.dispatched.accounts = "SET_LOADING"
               /\ accountsState'.isLoading = TRUE
          ELSE /\ AccountLoads(inflight') = AccountLoads(inflight)
               /\ ev'.dispatched.accounts = "none"
               /\ accountsState' = accountsState]_vars

\* a deleteTransaction has just been confirmed and its account reload is the
\* only request in flight
C11_Witness ==
    /\ ev.op = "deleteTransaction"
    /\ ev.api = "ok"
    /\ AccountLoads(inflight) = 1
    /\ BagCardinality(inflight) = 1

-----------------------------------------------------------------------------
(* Life of a store's error (Spec) *)

\* C12: a store's error is set to the failure's message by a failure
\* (SET_ERROR), is reset to null by a success response of that store (LOAD,
\* ADD, UPDATE, DELETE) and by clearError (CLEAR_ERROR), and is kept as it is
\* by every other step, the start of a new request (SET_LOADING) included.
C12_ErrorKeptUntilSuccessOrClear ==
    [][\A st \in Stores :
          LET d == ev'.dispatched[st]
          IN  /\ d \in SuccessTypes \cup {"CLEAR_ERROR"} => StoreState(st)'.error = Null
              /\ d = "SET_ERROR" => StoreState(st)'.error = ev'.msg /\ ev'.msg \in Messages
              /\ d \in {"SET_LOADING", "none"} => StoreState(st)'.error = StoreState(st).error]_vars

\* a new request of a store has just started and the store still shows the
\* message of an earlier failure
C12_Witness ==
    \E st \in Stores :
        /\ ev.api = "sent"
        /\ ev.dispatched[st] = "SET_LOADING"
        /\ StoreState(st).isLoading = TRUE
        /\ StoreState(st).error \in Messages

-----------------------------------------------------------------------------
(* Session changes (Spec) *)

\* what GET returns for the session of user u; no session has no records
ServerList(st, u) ==
    CASE u = NoUser -> <<>>
      [] st = "accounts" -> AccountList(u)
      [] st = "transactions" -> TxList(u)
      [] st = "budgets" -> BudgetList(u)

\* C13: whenever the authenticated user changes (login, logout, another
\* login) each store is reloaded: a reload of each store starts with the
\* change, a list response leaves the store with the records of the session
\* that is now authenticated, and once no user is authenticated and every
\* request has been answered no store holds a record.
C13_StoresReloadedOnSessionChange ==
    /\ ev.op = "useEffect" => \A st \in Stores : ev.dispatched[st] = "SET_LOADING"
    /\ (ev.op \in LoadOps /\ ev.api = "ok") =>
           Collection(ev.store) = ServerList(ev.store, user)
    /\ (user = NoUser /\ inflight = EmptyBag) => \A st \in Stores : Collection(st) = <<>>

-----------------------------------------------------------------------------
(* Collections after a confirmed mutation (SpecLoaded) *)

\* c2 is c with the one record rec added, every record of c kept in order
InsertedOne(c, c2, rec) ==
    /\ Len(c2) = Len(c) + 1
    /\ \E k \in 1..Len(c2) :
          /\ c2[k] = rec
          /\ \A i \in 1..Len(c) : c[i] = c2[IF i < k THEN i ELSE i + 1]

\* c2 is c with exactly the records of rec's id replaced by rec
ReplacedById(c, c2, rec) ==
    /\ Len(c2) = Len(c)
    /\ \A i \in 1..Len(c) : c2[i] = IF c[i].id = rec.id THEN rec ELSE c[i]

\* c2 is c without the records of that id, the others kept in order
RemovedId(c, c2, id) ==
    c2 = SelectSeq(c, LAMBDA x : x.id # id)

\* after the step the store is idle and shows no error
Settled(state) == state.isLoading = FALSE /\ state.error = Null

\* C14: the step of a confirmed create adds the returned record and keeps
\* every previous record; that of a confirmed update replaces exactly the
\* records whose id is the returned record's and keeps the length (nothing
\* is inserted when no id matches); that of a confirmed delete removes
\* every record of the given id and no other; each leaves isLoading false
\* and error null.
C14_CollectionReflectsConfirmedMutation ==
    [][\A r \in BagToSet(inflight) :
          /\ \A rec \in AccountPool :
                /\ addAccountOk(r, rec) =>
                       /\ InsertedOne(accountsState.accounts, accountsState'.accounts, rec)
                       /\ Settled(accountsState')
                /\ updateAccountOk(r, rec) =>
                       /\ ReplacedById(accountsState.accounts, accountsState'.accounts, rec)
                       /\ Settled(accountsState')
          /\ deleteAccountOk(r) =>
                /\ RemovedId(accountsState.accounts, accountsState'.accounts, r.id)
                /\ Settled(accountsState')
          /\ \A rec \in TxPool :
                /\ addTransactionOk(r, rec) =>
                       /\ InsertedOne(transactionsState.transactions,
                                      transactionsState'.transactions, rec)
                       /\ Settled(transactionsState')
                /\ updateTransactionOk(r, rec) =>
                       /\ ReplacedById(transactionsState.transactions,
                                       transactionsState'.transactions, rec)
                       /\ Settled(transactionsState')
          /\ deleteTransactionOk(r) =>
                /\ RemovedId(transactionsState.transactions, transactionsState'.transactions, r.id)
                /\ Settled(transactionsState')
          /\ \A rec \in BudgetPool :
                /\ addBudgetOk(r, rec) =>
                       /\ InsertedOne(budgetsState.budgets, budgetsState'.budgets, rec)
                       /\ Settled(budgetsState')
                /\ updateBudgetOk(r, rec) =>
                       /\ ReplacedById(budgetsState.budgets, budgetsState'.budgets, rec)
                       /\ Settled(budgetsState')
          /\ deleteBudgetOk(r) =>
                /\ RemovedId(budgetsState.budgets, budgetsState'.budgets, r.id)
                /\ Settled(budgetsState')]_vars

\* an update of a budget was confirmed after a delete had removed the
\* budget: no id matched and nothing was inserted
C14_Witness ==
    /\ ev.op = "updateBudget"
    /\ ev.api = "ok"
    /\ ev.snap # <<>>
    /\ budgetsState.budgets = <<>>
    /\ Settled(budgetsState)

-----------------------------------------------------------------------------
(* Totals of the account store (SpecLoaded) *)

StoredAccounts == accountsState.accounts

\* sum of balance over the accounts at the indices I
RECURSIVE BalanceOver(_)
BalanceOver(I) ==
    IF I = {} THEN 0
    ELSE LET i == CHOOSE j \in I : TRUE
         IN  StoredAccounts[i].balance + BalanceOver(I \ {i})

\* C15: getTotalBalance() is the sum of balance over the accounts that are
\* active and not of type credit; credit accounts and inactive accounts
\* contribute nothing, whatever their balance.
C15_TotalBalance ==
    getTotalBalance =
        BalanceOver({i \in 1..Len(StoredAccounts) :
                        StoredAccounts[i].isActive /\ StoredAccounts[i].type # "credit"})

\* an active credit account with a positive balance, an inactive account
\* and an active checking account are stored; only the last one counts
C15_Witness ==
    /\ \E i \in 1..Len(StoredAccounts) :
          /\ StoredAccounts[i].type = "credit"
          /\ StoredAccounts[i].isActive
          /\ StoredAccounts[i].balance > 0
    /\ \E i \in 1..Len(StoredAccounts) :
          ~StoredAccounts[i].isActive /\ StoredAccounts[i].balance # 0
    /\ \E i \in 1..Len(StoredAccounts) :
          /\ StoredAccounts[i].type = "checking"
          /\ StoredAccounts[i].isActive
          /\ getTotalBalance = StoredAccounts[i].balance

\* the balances of the active credit accounts, one per account
ActiveCreditBalances ==
    LET credit == SelectSeq(StoredAccounts, LAMBDA a : a.isActive /\ a.type = "credit")
    IN  [i \in 1..Len(credit) |-> credit[i].balance]

\* C16: getTotalDebt() is the absolute value of the sum of the negative
\* balances of the active credit accounts; credit accounts with a positive
\* balance, other types and inactive accounts contribute 0; the result is
\* never negative; with credit balances -300 and +50 it is 300.
C16_TotalDebt ==
    /\ getTotalDebt =
          MathAbs(BalanceOver({i \in 1..Len(StoredAccounts) :
                                  /\ StoredAccounts[i].isActive
                                  /\ StoredAccounts[i].type = "credit"
                                  /\ StoredAccounts[i].balance < 0}))
    /\ getTotalDebt >= 0
    /\ ActiveCreditBalances \in {<<-300, 50>>, <<50, -300>>} => getTotalDebt = 300

\* active credit accounts of balances +50 and -300 are stored and the debt
\* is 300
C16_Witness ==
    /\ ActiveCreditBalances = <<50, -300>>
    /\ getTotalDebt = 300

-----------------------------------------------------------------------------
(* Totals of the budget store (SpecLoaded) *)

BudgetSeq == budgetsState.budgets

\* the periods the totals are asked for
TotalsPeriods == {<<2024, 2>>, <<2024, 3>>, <<2024, 4>>, <<2023, 3>>}

\* indices of the stored budgets of a period that are active
ActiveIn(year, month) ==
    {i \in 1..Len(BudgetSeq) :
        /\ BudgetSeq[i].isActive
        /\ BudgetSeq[i].year = year
        /\ BudgetSeq[i].month = month}

RECURSIVE SpentOverBudgets(_)
SpentOverBudgets(I) ==
    IF I = {} THEN 0
    ELSE LET i == CHOOSE j \in I : TRUE
         IN  SpentOf(BudgetSeq[i]) + SpentOverBudgets(I \ {i})

RECURSIVE AmountOverBudgets(_)
AmountOverBudgets(I) ==
    IF I = {} THEN 0
    ELSE LET i == CHOOSE j \in I : TRUE
         IN  BudgetSeq[i].amount + AmountOverBudgets(I \ {i})

\* C17: getTotalSpent(year, month) is the sum, over every active budget of
\* that year and month, of getCategorySpent of the budget's category, one
\* term per budget: a category shared by two active budgets is counted
\* twice, and inactive budgets contribute nothing.
C17_TotalSpentPerBudget ==
    \A p \in TotalsPeriods :
        getTotalSpent(p[1], p[2]) = SpentOverBudgets(ActiveIn(p[1], p[2]))

\* two active budgets of March 2024 share a category with spend, an
\* inactive budget of that category and month is stored too, and the total
\* is twice the category's spend
C17_Witness ==
    \E i, j, k \in 1..Len(BudgetSeq) :
        /\ i # j
        /\ ActiveIn(2024, 3) = {i, j}
        /\ BudgetSeq[i].categoryId = BudgetSeq[j].categoryId
        /\ BudgetSeq[k].categoryId = BudgetSeq[i].categoryId
        /\ ~BudgetSeq[k].isActive
        /\ BudgetSeq[k].year = 2024 /\ BudgetSeq[k].month = 3
        /\ SpentOf(BudgetSeq[i]) > 0
        /\ getTotalSpent(2024, 3) = 2 * SpentOf(BudgetSeq[i])

\* C18: getTotalBudgeted(year, month) is the sum of amount over the stored
\* budgets that are active and whose year and month both equal the
\* arguments; it is 0 when no budget matches.
C18_TotalBudgeted ==
    \A p \in TotalsPeriods :
        /\ getTotalBudgeted(p[1], p[2]) = AmountOverBudgets(ActiveIn(p[1], p[2]))
        /\ ActiveIn(p[1], p[2]) = {} => getTotalBudgeted(p[1], p[2]) = 0

\* an active budget of March 2024, an inactive one of the same month and an
\* active one of another month are stored; the total of March is the first
\* one's amount
C18_Witness ==
    \E i, j, k \in 1..Len(BudgetSeq) :
        /\ ActiveIn(2024, 3) = {i}
        /\ ~BudgetSeq[j].isActive
        /\ BudgetSeq[j].year = 2024 /\ BudgetSeq[j].month = 3
        /\ BudgetSeq[k].isActive /\ BudgetSeq[k].month # 3
        /\ getTotalBudgeted(2024, 3) = BudgetSeq[i].amount
        /\ getTotalBudgeted(2024, 4) = 0

-----------------------------------------------------------------------------
(* Periods and totals of the transaction store (SpecLoaded) *)

TxSeq == transactionsState.transactions

\* the instants given as bounds: 29 Feb 2024 00:00:00, 1 Mar 2024 00:00:00
\* and 31 Mar 2024 23:59:59
PeriodBounds ==
    {NewDate(2024, 1, 29, 0, 0, 0, 0), NewDate(2024, 2, 1, 0, 0, 0, 0),
     NewDate(2024, 2, 31, 23, 59, 59, 0)}

\* instant x is not after instant y
NotAfter(x, y) == x[1] < y[1] \/ (x[1] = y[1] /\ x[2] <= y[2])

\* indices of the stored transactions dated within [start, end]
WithinPeriod(start, end) ==
    {i \in 1..Len(TxSeq) :
        /\ NotAfter(start, ParseDate(TxSeq[i].date))
        /\ NotAfter(ParseDate(TxSeq[i].date), end)}

\* the first n stored transactions restricted to the indices I, in order
RECURSIVE TxAt(_, _)
TxAt(I, n) ==
    IF n = 0 THEN <<>>
    ELSE IF n \in I THEN Append(TxAt(I, n - 1), TxSeq[n]) ELSE TxAt(I, n - 1)

RECURSIVE TxAmountOver(_)
TxAmountOver(I) ==
    IF I = {} THEN 0
    ELSE LET i == CHOOSE j \in I : TRUE
         IN  TxSeq[i].amount + TxAmountOver(I \ {i})

\* indices of the completed transactions of a type, within the period when
\* both bounds are given, of the whole collection otherwise
CompletedOf(type, start, end) ==
    {i \in (IF start # Missing /\ end # Missing THEN WithinPeriod(start, end)
            ELSE 1..Len(TxSeq)) :
        TxSeq[i].type = type /\ TxSeq[i].status = "completed"}

\* C19: getTotalIncome(start, end) and getTotalExpenses(start, end) are the
\* sums of amount over the completed transactions of type income and
\* expense; the sum is restricted to start <= date <= end when both bounds
\* are given and runs over the whole collection when either is missing.
C19_TotalsOfCompleted ==
    \A start, end \in PeriodBounds \cup {Missing} :
        /\ getTotalIncome(start, end) = TxAmountOver(CompletedOf("income", start, end))
        /\ getTotalExpenses(start, end) = TxAmountOver(CompletedOf("expense", start, end))

\* a completed expense dated before 1 March is stored beside a cancelled
\* expense of March: the expenses of March are 0, and with the end bound
\* missing the start bound is ignored and the February expense is counted
C19_Witness ==
    LET start == NewDate(2024, 2, 1, 0, 0, 0, 0)
        end == NewDate(2024, 2, 31, 23, 59, 59, 0)
    IN  /\ \E i \in WithinPeriod(start, end) :
              TxSeq[i].type = "expense" /\ TxSeq[i].status = "cancelled"
        /\ getTotalExpenses(start, end) = 0
        /\ getTotalExpenses(start, Missing) > 0
        /\ getTotalExpenses(start, Missing) = getTotalExpenses(Missing, Missing)
        /\ getTotalIncome(start, end) > 0

\* C20: getTransactionsByPeriod(start, end) is exactly the stored
\* transactions with start <= date <= end, in collection order; a
\* transaction dated exactly start or exactly end is returned.
C20_PeriodInclusive ==
    \A start, end \in PeriodBounds :
        /\ getTransactionsByPeriod(start, end) = TxAt(WithinPeriod(start, end), Len(TxSeq))
        /\ \A i \in 1..Len(TxSeq) :
              ParseDate(TxSeq[i].date) \in {start, end} /\ NotAfter(start, end) =>
                  \E k \in 1..Len(getTransactionsByPeriod(start, end)) :
                      getTransactionsByPeriod(start, end)[k] = TxSeq[i]

\* the period of March 2024 returns a transaction dated exactly at its
\* start and one dated exactly at its end, in collection order, and leaves
\* out a transaction of February
C20_Witness ==
    LET start == NewDate(2024, 2, 1, 0, 0, 0, 0)
        end == NewDate(2024, 2, 31, 23, 59, 59, 0)
        period == getTransactionsByPeriod(start, end)
    IN  /\ Len(TxSeq) = 3
        /\ Len(period) = 2
        /\ ParseDate(period[1].date) = start
        /\ ParseDate(period[2].date) = end
        /\ period = <<TxSeq[1], TxSeq[2]>>

-----------------------------------------------------------------------------
(* SpecQuery: a component evaluating the derivations of the budget store    *)
(* between the steps of one handler call of a loaded session.               *)

\* The history of an evaluation: the function called, its arguments and the
\* value it returned.  An evaluation dispatches nothing and calls no API.
QueryEv(op, args, result) ==
    [store |-> "budgets", op |-> op, api |-> "none", msg |-> Null, promise |-> "none",
     thrown |-> Null, snap |-> <<>>, dispatched |-> NoDispatch,
     args |-> args, result |-> result]

evalGetCategorySpent(categoryId, year, month) ==
    /\ ev' = QueryEv("getCategorySpent", <<categoryId, year, month>>,
                     getCategorySpent(categoryId, year, month))
    /\ UNCHANGED <<authVars, user, accountsState, transactionsState, budgetsState, inflight, calls>>

evalGetBudgetStatus(budget) ==
    /\ ev' = QueryEv("getBudgetStatus", <<budget>>, getBudgetStatus(budget))
    /\ UNCHANGED <<authVars, user, accountsState, transactionsState, budgetsState, inflight, calls>>

evalGetBudgetsWithSpent ==
    /\ ev' = QueryEv("getBudgetsWithSpent", <<>>, getBudgetsWithSpent)
    /\ UNCHANGED <<authVars, user, accountsState, transactionsState, budgetsState, inflight, calls>>

evalGetTotalBudgeted(year, month) ==
    /\ ev' = QueryEv("getTotalBudgeted", <<year, month>>, getTotalBudgeted(year, month))
    /\ UNCHANGED <<authVars, user, accountsState, transactionsState, budgetsState, inflight, calls>>

evalGetTotalSpent(year, month) ==
    /\ ev' = QueryEv("getTotalSpent", <<year, month>>, getTotalSpent(year, month))
    /\ UNCHANGED <<authVars, user, accountsState, transactionsState, budgetsState, inflight, calls>>

\* the categories and periods a component asks for
QueryCategories == {"food", "transport"}
QueryPeriods == {<<2024, 2>>, <<2024, 3>>}

InitQuery ==
    \E u \in Users :
        /\ user = u
        /\ authState = SessionAuthState(u)
        /\ localStorage = SessionStorage(u)
        /\ authMounted = TRUE
        /\ accountsState = accountsReducer(accountsInitialState, Act("LOAD_ACCOUNTS", AccountList(u)))
        /\ transactionsState =
               transactionsReducer(transactionsInitialState, Act("LOAD_TRANSACTIONS", TxList(u)))
        /\ budgetsState = budgetsReducer(budgetsInitialState, Act("LOAD_BUDGETS", BudgetList(u)))
        /\ inflight = EmptyBag
        /\ calls = MaxCalls - 1
        /\ ev = NoEv

NextQuery ==
    \/ \E c \in QueryCategories, p \in QueryPeriods : evalGetCategorySpent(c, p[1], p[2])
    \/ \E i \in 1..Len(budgetsState.budgets) : evalGetBudgetStatus(budgetsState.budgets[i])
    \/ evalGetBudgetsWithSpent
    \/ \E p \in QueryPeriods : evalGetTotalBudgeted(p[1], p[2])
    \/ \E p \in QueryPeriods : evalGetTotalSpent(p[1], p[2])
    \/ Next

SpecQuery == InitQuery /\ [][NextQuery]_vars

QueryOps == {"getCategorySpent", "getBudgetStatus", "getBudgetsWithSpent",
             "getTotalBudgeted", "getTotalSpent"}

\* the spend of a category in a month, given the transaction collection
\* alone: the amounts of its expenses dated in the month's window
RECURSIVE SpentGiven(_, _, _, _)
SpentGiven(txs, categoryId, year, month) ==
    IF txs = <<>> THEN 0
    ELSE (IF /\ Head(txs).category.id = categoryId
             /\ Head(txs).type = "expense"
             /\ InMonthWindow(Head(txs).date, year, month)
          THEN Head(txs).amount ELSE 0)
         + SpentGiven(Tail(txs), categoryId, year, month)

\* C21: the value getCategorySpent returns is determined by its arguments
\* and the transaction collection alone, so two evaluations over an
\* unchanged collection return the same value; and the step of evaluating
\* getCategorySpent, getBudgetStatus, getBudgetsWithSpent, getTotalBudgeted
\* or getTotalSpent changes no store (collection, isLoading, error), sends
\* no request and dispatches nothing.
C21_QueriesArePure ==
    [][ev'.op \in QueryOps =>
          /\ accountsState' = accountsState
          /\ transactionsState' = transactionsState
          /\ budgetsState' = budgetsState
          /\ inflight' = inflight
          /\ ev'.dispatched = NoDispatch
          /\ ev'.op = "getCategorySpent" =>
                 ev'.result = SpentGiven(transactionsState'.transactions,
                                         ev'.args[1], ev'.args[2], ev'.args[3])]_vars

\* getCategorySpent has just returned a positive spend while a request of
\* the transaction store was in flight and the store showed isLoading
C21_Witness ==
    /\ ev.op = "getCategorySpent"
    /\ ev.result > 0
    /\ transactionsState.isLoading = TRUE
    /\ \E r \in BagToSet(inflight) : r.store = "transactions"

-----------------------------------------------------------------------------
(* BudgetForm: the form that creates and edits budgets *)

\* ids of Object.values(CATEGORIES.EXPENSE)
ExpenseCategoryIds ==
    {"food", "transport", "health", "education", "entertainment", "shopping", "bills",
     "rent", "other_expense"}

\* Array.find result when no category has the id
Undefined == "undefined"

\* expenseCategories.find((cat) => cat.id === watchedCategoryId), by its id
getSelectedCategory(watchedCategoryId) ==
    IF watchedCategoryId \in ExpenseCategoryIds THEN watchedCategoryId ELSE Undefined

\* the budget prop of a form that creates (isEditMode = !!budget is false)
NoBudget == 0

\* The history of an onSubmit that returned without calling the store.
FormEv(onSave) ==
    [store |-> "budgets", op |-> "onSubmit", api |-> "none", msg |-> Null, promise |-> "resolved",
     thrown |-> Null, snap |-> budgetsState.budgets, dispatched |-> NoDispatch,
     onSave |-> onSave]

\* onSubmit without the selected-category check
onSubmitUnchecked(watchedCategoryId, budgetId) ==
    IF budgetId # NoBudget THEN updateBudget(budgetId) ELSE addBudget

\* onSubmit up to its await: the form's category is watchedCategoryId and its
\* budget prop has id budgetId (NoBudget when creating)
onSubmit(watchedCategoryId, budgetId) ==
    IF getSelectedCategory(watchedCategoryId) = Undefined
    THEN /\ ev' = FormEv(FALSE)
         /\ UNCHANGED <<authVars, user, accountsState, transactionsState, budgetsState, inflight, calls>>
    ELSE IF budgetId # NoBudget THEN updateBudget(budgetId) ELSE addBudget

\* the submit button is disabled while the budget store's isLoading is true
submitBudgetForm(watchedCategoryId, budgetId) ==
    /\ budgetsState.isLoading = FALSE
    /\ onSubmit(watchedCategoryId, budgetId)

\* the category ids a form is submitted with: none selected, an expense
\* category, an income category
FormCategoryIds == {"", "food", "salary"}

-----------------------------------------------------------------------------
(* SpecForm: the budget store of a loaded session driven by BudgetForm, by   *)
(* deleteBudget and by session changes, over three calls.                    *)

InitForm ==
    \E u \in Users :
        /\ user = u
        /\ authState = SessionAuthState(u)
        /\ localStorage = SessionStorage(u)
        /\ authMounted = TRUE
        /\ accountsState = accountsReducer(accountsInitialState, Act("LOAD_ACCOUNTS", AccountList(u)))
        /\ transactionsState =
               transactionsReducer(transactionsInitialState, Act("LOAD_TRANSACTIONS", TxList(u)))
        /\ budgetsState = budgetsReducer(budgetsInitialState, Act("LOAD_BUDGETS", BudgetList(u)))
        /\ inflight = EmptyBag
        /\ calls = MaxCalls - 3
        /\ ev = NoEv

NextForm ==
    \/ \E c \in FormCategoryIds, b \in Ids(budgetsState.budgets) \cup {NoBudget} :
           submitBudgetForm(c, b)
    \/ \E r \in BagToSet(inflight), rec \in BudgetPool : addBudgetOk(r, rec)
    \/ \E r \in BagToSet(inflight) : addBudgetFail(r, FailureMessage(r))
    \/ \E r \in BagToSet(inflight), rec \in BudgetPool : updateBudgetOk(r, rec)
    \/ \E r \in BagToSet(inflight) : updateBudgetFail(r, FailureMessage(r))
    \/ \E id \in Ids(budgetsState.budgets) : deleteBudget(id)
    \/ \E r \in BagToSet(inflight) : deleteBudgetOk(r)
    \/ \E r \in BagToSet(inflight) : deleteBudgetFail(r, FailureMessage(r))
    \/ \E u \in Users \cup {NoUser} : userChanged(u)
    \/ \E r \in BagToSet(inflight) : loadBudgetsOk(r, BudgetList(r.user))
    \/ \E r \in BagToSet(inflight) : loadBudgetsFail(r, FailureMessage(r))
    \/ clearErrorBudgets

SpecForm == InitForm /\ [][NextForm]_vars

\* the addBudget and updateBudget requests awaiting their response
Submissions ==
    {r \in BagToSet(inflight) : r.store = "budgets" /\ r.op \in {"add", "update"}}

SubmissionsInFlight ==
    IF Submissions = {} THEN 0 ELSE BagCardinality([r \in Submissions |-> inflight[r]])

\* C22: no submission of BudgetForm (addBudget, updateBudget) starts while an
\* earlier one has not received its response: at most one is in flight.
C22_OneSubmissionInFlight == SubmissionsInFlight <= 1

-----------------------------------------------------------------------------
(* No retry *)

\* the number of requests of store st with operation op in bag b
CountOf(b, st, op) ==
    LET sub == {r \in BagToSet(b) : r.store = st /\ r.op = op}
    IN  IF sub = {} THEN 0 ELSE BagCardinality([r \in sub |-> b[r]])

\* the request a mutation handler sends
RequestOp(op) ==
    CASE op \in {"addAccount", "addTransaction", "addBudget"} -> "add"
      [] op \in {"updateAccount", "updateTransaction", "updateBudget"} -> "update"
      [] op \in {"deleteAccount", "deleteTransaction", "deleteBudget"} -> "delete"
      [] OTHER -> "load"

\* a step that invokes a create, update or delete sends one request, of that
\* operation
MutationSendsOne ==
    (ev'.api = "sent" /\ ev'.op \in MutationOps) =>
        /\ BagCardinality(inflight') = BagCardinality(inflight) + 1
        /\ CountOf(inflight', ev'.store, RequestOp(ev'.op))
               = CountOf(inflight, ev'.store, RequestOp(ev'.op)) + 1

\* the state of store st after the step
StoreStateAfter(st) ==
    CASE st = "accounts" -> accountsState'
      [] st = "transactions" -> transactionsState'
      [] st = "budgets" -> budgetsState'

\* a step that handles a failed request sends nothing and leaves the store in
\* its error state
FailureIsFinal ==
    (ev'.api = "fail") =>
        /\ BagCardinality(inflight') = BagCardinality(inflight) - 1
        /\ \A r \in BagToSet(inflight') : CopiesIn(r, inflight') <= CopiesIn(r, inflight)
        /\ StoreStateAfter(ev'.store).error = ev'.msg
        /\ ev'.msg # Null
        /\ StoreStateAfter(ev'.store).isLoading = FALSE

-----------------------------------------------------------------------------
(* BudgetForm: submission without an expense category *)

\* C24: a submission of BudgetForm whose categoryId is empty or is not the id
\* of an expense category returns before any network call: addBudget and
\* updateBudget are not invoked, onSave is not called, and the budget store
\* (collection, isLoading, error) is unchanged.
C24_SubmitWithoutCategoryDoesNothing ==
    [][\A c \in FormCategoryIds, b \in Ids(budgetsState.budgets) \cup {NoBudget} :
           (c \notin ExpenseCategoryIds /\ submitBudgetForm(c, b)) =>
               /\ budgetsState' = budgetsState
               /\ inflight' = inflight
               /\ calls' = calls
               /\ ev'.op \notin {"addBudget", "updateBudget"}
               /\ ev'.dispatched = NoDispatch
               /\ ev'.op = "onSubmit" /\ ev'.onSave = FALSE
      ]_vars

\* a submission was rejected in a session whose budget store is idle
C24_Witness ==
    /\ ev.op = "onSubmit"
    /\ ev.onSave = FALSE
    /\ budgetsState.isLoading = FALSE
    /\ budgetsState.budgets # <<>>
    /\ inflight = EmptyBag

-----------------------------------------------------------------------------
(* Balances come from the server *)

\* the balance each stored account id has in a list of accounts
BalancesOf(accounts) == {<<accounts[i].id, accounts[i].balance>> : i \in DOMAIN accounts}

\* the reducer actions that carry account records of a response
BalanceSources == {"LOAD_ACCOUNTS", "ADD_ACCOUNT", "UPDATE_ACCOUNT"}

\* C26: the client never recomputes balances.  Every step of a transaction
\* mutation (start, success, failure) leaves the account collection
\* unchanged, and a step after which some account has a balance it did not
\* have before is the successful response of an account API call
\* dispatching LOAD_ACCOUNTS, ADD_ACCOUNT or UPDATE_ACCOUNT.
C26_BalancesOnlyFromAccountResponses ==
    [][/\ (ev'.store = "transactions") => accountsState'.accounts = accountsState.accounts
       /\ ~(BalancesOf(accountsState'.accounts) \subseteq BalancesOf(accountsState.accounts)) =>
              /\ ev'.store = "accounts"
              /\ ev'.api = "ok"
              /\ ev'.dispatched.accounts \in BalanceSources
      ]_vars

\* a transaction was added while accounts are stored: their balances are the
\* ones loaded, and the reload the mutation started is awaiting its response
C26_Witness ==
    /\ ev.op = "addTransaction"
    /\ ev.api = "ok"
    /\ accountsState.accounts = AccountList(user)
    /\ CountOf(inflight, "accounts", "load") = 1

-----------------------------------------------------------------------------
(* Failure of the account reload a transaction mutation starts *)

\* C27: the failure of a loadAccounts (the reload a confirmed transaction
\* mutation started included) changes nothing in the transaction store: the
\* confirmed mutation stays applied and the store's error stays as it was
\* (null after the mutation); the failure is recorded in the account store's
\* error only, and the account collection keeps the balances it had.
C27_ReloadFailureKeepsMutation ==
    [][(ev'.op = "loadAccounts" /\ ev'.api = "fail") =>
           /\ transactionsState' = transactionsState
           /\ budgetsState' = budgetsState
           /\ accountsState'.accounts = accountsState.accounts
           /\ accountsState'.error = ev'.msg
           /\ ev'.msg # Null
           /\ ev'.dispatched = [NoDispatch EXCEPT !.accounts = "SET_ERROR"]
      ]_vars

\* a transaction was added, the reload it started failed: the transaction is
\* stored, the transaction store has no error, the accounts are the loaded ones
C27_Witness ==
    /\ ev.op = "loadAccounts"
    /\ ev.api = "fail"
    /\ Len(transactionsState.transactions) = Len(TxList(user)) + 1
    /\ Settled(transactionsState)
    /\ accountsState.error = ev.msg
    /\ accountsState.accounts = AccountList(user)
    /\ inflight = EmptyBag

-----------------------------------------------------------------------------
(* isLoading and the requests in flight *)

\* the requests of store st awaiting their response
Outstanding(st) == {r \in BagToSet(inflight) : r.store = st}

\* C28: in every reachable state, a store with at least one request in flight
\* has isLoading true; isLoading is false only when none is outstanding.
C28_LoadingWhileInFlight ==
    \A st \in Stores : Outstanding(st) # {} => StoreState(st).isLoading = TRUE

-----------------------------------------------------------------------------
(* A list response arriving after a confirmed mutation *)

RecordsOf(c) == {c[i] : i \in DOMAIN c}

\* the collection of store st after the step
CollectionAfter(st) ==
    CASE st = "accounts" -> accountsState'.accounts
      [] st = "transactions" -> transactionsState'.transactions
      [] st = "budgets" -> budgetsState'.budgets

\* the records the create and update responses of store st return
ReturnedBy(st) ==
    CASE st = "accounts" -> AccountPool
      [] st = "transactions" -> TxPool
      [] st = "budgets" -> BudgetPool

\* C29: a list response never overwrites a newer confirmed mutation.  When a
\* create, update or delete of a store has just been confirmed while a list
\* request of that store is in flight, the step that applies the list
\* response keeps the mutation's effect: the records the mutation returned
\* stay in the collection and the ids it removed stay absent.
C29_ListKeepsConfirmedMutation ==
    [][\A st \in Stores :
          (/\ ev.store = st /\ ev.api = "ok" /\ ev.op \in MutationOps
           /\ ev'.store = st /\ ev'.api = "ok" /\ ev'.op \in LoadOps) =>
              /\ RecordsOf(Collection(st)) \cap ReturnedBy(st) \subseteq RecordsOf(CollectionAfter(st))
              /\ Ids(CollectionAfter(st)) \cap (Ids(ev.snap) \ Ids(Collection(st))) = {}
      ]_vars

-----------------------------------------------------------------------------
(* SpecSwitch: the session changes while the list requests of the previous   *)
(* session are in flight; every request is answered with its user's list.    *)

InitSwitch ==
    \E a \in Users :
        /\ user = a
        /\ authState = SessionAuthState(a)
        /\ localStorage = SessionStorage(a)
        /\ authMounted = TRUE
        /\ accountsState = loadAccountsCall(accountsInitialState, a)
        /\ transactionsState = loadTransactionsCall(transactionsInitialState, a)
        /\ budgetsState = loadBudgetsCall(budgetsInitialState, a)
        /\ inflight = loadReq("accounts", a) (+) loadReq("transactions", a) (+) loadReq("budgets", a)
        /\ calls = MaxCalls - 2
        /\ ev = Ev("all", "useEffect", "sent", Null, "pending", Null, <<>>,
                   [st \in {"accounts", "transactions", "budgets"} |-> loadDispatch(a)])

NextSwitch ==
    \/ \E u \in Users \cup {NoUser} : userChanged(u)
    \/ \E r \in BagToSet(inflight) : loadAccountsOk(r, AccountList(r.user))
    \/ \E r \in BagToSet(inflight) : loadTransactionsOk(r, TxList(r.user))
    \/ \E r \in BagToSet(inflight) : loadBudgetsOk(r, BudgetList(r.user))

SpecSwitch == InitSwitch /\ [][NextSwitch]_vars

\* C30: when the session has changed while list requests were in flight and
\* every response has arrived, in whatever order, each store's collection is
\* the list returned for the user now logged in.
C30_LateResponseNotApplied ==
    (inflight = EmptyBag /\ user # NoUser) =>
        \A st \in Stores : Collection(st) = ServerList(st, user)

-----------------------------------------------------------------------------
(* SpecAuth: the auth provider from its mount, with the cached session the   *)
(* browser holds, over two handler calls.                                    *)

InitAuth ==
    /\ user = NoUser
    /\ authState = authInitialState
    /\ localStorage \in [financas_user : {Null, "", Corrupt, JSONNull, JSONstringify(1)},
                         financas_token : {Null, "", Token(1)}]
    /\ authMounted = FALSE
    /\ accountsState = accountsInitialState
    /\ transactionsState = transactionsInitialState
    /\ budgetsState = budgetsInitialState
    /\ inflight = EmptyBag
    /\ calls = MaxCalls - 2
    /\ ev = NoEv

NextAuth ==
    \/ \E readable \in BOOLEAN : loadStoredUser(readable)
    \/ \E u \in Users : login(u)
    \/ \E r \in BagToSet(inflight) : loginOk(r)
    \/ \E r \in BagToSet(inflight) : loginFail(r, FailureMessage(r))
    \/ \E u \in Users : register(u)
    \/ \E r \in BagToSet(inflight) : registerOk(r)
    \/ \E r \in BagToSet(inflight) : registerFail(r, FailureMessage(r))
    \/ resetPassword
    \/ \E r \in BagToSet(inflight) : resetPasswordOk(r)
    \/ \E r \in BagToSet(inflight) : resetPasswordFail(r, FailureMessage(r))
    \/ logout
    \/ clearErrorAuth
    \/ providersEffect
    \/ \E r \in BagToSet(inflight) : loadAccountsOk(r, AccountList(r.user))
    \/ \E r \in BagToSet(inflight) : loadTransactionsOk(r, TxList(r.user))
    \/ \E r \in BagToSet(inflight) : loadBudgetsOk(r, BudgetList(r.user))

SpecAuth == InitAuth /\ [][NextAuth]_vars

\* the cached session is complete: both items are stored, not empty, and the
\* stored user is JSON text
CachedSessionComplete ==
    /\ Truthy(localStorage.financas_user)
    /\ Truthy(localStorage.financas_token)
    /\ JSONparses(localStorage.financas_user)

\* C25: at start-up (the step of loadStoredUser), when the storage cannot be
\* read, the stored user does not parse, or the stored user or token is
\* missing, the auth state becomes user null, isAuthenticated false,
\* isLoading false, with error null and nothing thrown; the user is
\* authenticated after the step only when both items are stored and the user
\* parses, and then the user is the parsed one.
C25_StartUpRestoresCachedSession ==
    [][\A readable \in BOOLEAN :
          loadStoredUser(readable) =>
              /\ (~readable \/ ~CachedSessionComplete) =>
                     /\ authState' = authInitialState
                     /\ ev'.thrown = Null
              /\ authState'.isAuthenticated =>
                     /\ readable /\ CachedSessionComplete
                     /\ authState'.user = JSONparse(localStorage.financas_user)
              /\ authState'.isLoading = FALSE /\ authState'.error = Null
              /\ localStorage' = localStorage
      ]_vars

\* start-up found a stored user that does not parse, next to a token: nobody
\* is authenticated and no error is shown
C25_Witness ==
    /\ ev.op = "loadStoredUser"
    /\ localStorage.financas_user = Corrupt
    /\ Truthy(localStorage.financas_token)
    /\ authState = authInitialState

-----------------------------------------------------------------------------
(* The stores after a logout *)

\* C31: whenever no user is authenticated and the providers' effects have
\* run for that change, the account, transaction and budget collections are
\* empty: a logout leaves no record of the logged-out user in the stores.
C31_NoRecordsWithoutUser ==
    (authMounted /\ authState.user = NoUser /\ user = NoUser) =>
        \A st \in Stores : Collection(st) = <<>>

-----------------------------------------------------------------------------
(* The auth state and the persisted session *)

\* storage holds a session: both items are stored and the stored user is the
\* JSON text of a user
SessionPersisted ==
    /\ CachedSessionComplete
    /\ JSONparse(localStorage.financas_user) # NoUser

\* the in-memory auth state agrees with the persisted session
AuthAgrees ==
    /\ authState.isAuthenticated <=> authState.user # NoUser
    /\ authState.user # NoUser <=> SessionPersisted

\* C32: isAuthenticated is true iff user is non-null, and user is non-null iff
\* storage holds the session (both financas_user and financas_token), in
\* every state reached through login, register, resetPassword (success or
\* failure), logout and clearError: no step of these handlers takes a state
\* where memory and storage agree to one where they disagree.
C32_AuthAgreesWithStorage ==
    [][(authMounted /\ AuthAgrees) => AuthAgrees']_vars

-----------------------------------------------------------------------------
(* SpecSpend: a loaded session in which transactions are added, two calls of *)
(* addTransaction, against budgets of amount 5 and 10.                       *)

\* the records POST /transacoes returns under SpecSpend
SpendAdded ==
    { Tx(21, "food", "expense", 4, "completed", Date(2024, 3, 10, 9, 0, 0, 0)),
      Tx(22, "food", "expense", 2, "pending", Date(2024, 3, 31, 23, 59, 59, 0)),
      Tx(23, "food", "expense", 3, "completed", Date(2024, 2, 29, 12, 0, 0, 0)),
      Tx(24, "transport", "expense", 8, "completed", Date(2024, 3, 1, 0, 0, 0, 0)) }

InitSpend ==
    /\ user = 1
    /\ authState = SessionAuthState(1)
    /\ localStorage = SessionStorage(1)
    /\ authMounted = TRUE
    /\ accountsState = [accountsInitialState EXCEPT !.accounts = AccountList(1)]
    /\ transactionsState \in
         {[transactionsInitialState EXCEPT !.transactions = l] :
             l \in { <<>>,
                     <<Tx(20, "food", "expense", 1, "completed", Date(2024, 3, 2, 8, 0, 0, 0))>>,
                     <<Tx(20, "food", "income", 9, "completed", Date(2024, 3, 2, 8, 0, 0, 0))>> }}
    /\ budgetsState \in
         {[budgetsInitialState EXCEPT !.budgets = l] :
             l \in { <<Budget(1, "food", 5, 2024, 3, TRUE)>>,
                     <<Budget(1, "food", 5, 2024, 3, TRUE),
                       Budget(2, "transport", 10, 2024, 3, FALSE)>>,
                     <<Budget(3, "food", 10, 2024, 2, TRUE)>> }}
    /\ inflight = EmptyBag
    /\ calls = MaxCalls - 2
    /\ ev = NoEv

NextSpend ==
    \/ addTransaction
    \/ \E r \in BagToSet(inflight), rec \in SpendAdded : addTransactionOk(r, rec)
    \/ \E r \in BagToSet(inflight) : addTransactionFail(r, FailureMessage(r))
    \/ \E r \in BagToSet(inflight) : loadAccountsOk(r, AccountList(r.user))
    \/ \E r \in BagToSet(inflight) : loadAccountsFail(r, FailureMessage(r))

SpecSpend == InitSpend /\ [][NextSpend]_vars

\* the order on_track < warning < exceeded
StatusRank(status) ==
    CASE status = BUDGET_STATUS.ON_TRACK -> 0
      [] status = BUDGET_STATUS.WARNING -> 1
      [] status = BUDGET_STATUS.EXCEEDED -> 2

\* the record getBudgetsWithSpent gives for budget B after the step
WithSpentAfter(B) == WithSpent(B)'

\* C33: budget status is monotone in spend.  Every step of a successful
\* addTransaction that adds an expense of positive amount leaves, for each
\* stored budget with amount > 0, the status where it was or further in the
\* order on_track < warning < exceeded, spent not smaller and remaining not
\* greater.
C33_StatusMonotoneInSpend ==
    [][(/\ ev'.op = "addTransaction" /\ ev'.api = "ok"
        /\ transactionsState'.transactions # <<>>
        /\ transactionsState'.transactions[1].type = TRANSACTION_TYPES.EXPENSE
        /\ transactionsState'.transactions[1].amount > 0) =>
           \A B \in StoredBudgets :
               B.amount > 0 =>
                   LET before == WithSpent(B)
                       after == WithSpentAfter(B)
                   IN  /\ StatusRank(after.status) >= StatusRank(before.status)
                       /\ after.spent >= before.spent
                       /\ after.remaining <= before.remaining
      ]_vars

\* a second added expense has taken a budget from warning to exceeded
C33_Witness ==
    /\ ev.op = "addTransaction"
    /\ ev.api = "ok"
    /\ Len(transactionsState.transactions) >= 2
    /\ \E B \in StoredBudgets :
          /\ getBudgetStatus(B) = BUDGET_STATUS.EXCEEDED
          /\ SpentOf(B) - transactionsState.transactions[1].amount < B.amount
          /\ 5 * (SpentOf(B) - transactionsState.transactions[1].amount) >= 4 * B.amount
          /\ transactionsState.transactions[1].category.id = B.categoryId
          /\ transactionsState.transactions[2].category.id = B.categoryId
          /\ transactionsState.transactions[1].amount > 0

====
